---- MODULE Spec2Model ----
(***************************************************************************)
(* Structure-aware segmentation and retrieval pipeline of the OWPML RAG    *)
(* system (src/rag, src/backend).                                           *)
(*                                                                         *)
(* Texts are sequences of one-character strings.  The Korean glyphs the    *)
(* regular expressions of the source look for are written with ASCII       *)
(* stand-ins:                                                              *)
(*     "J" = U+C81C (je)     "A" = U+C7A5 (jang, chapter)                   *)
(*     "O" = U+C870 (jo, article)   "P" = a circled digit (U+2460..2469)    *)
(* Digits, blanks, parentheses, "." and "\n" stand for themselves; "x" and *)
(* "y" are ordinary letters.                                               *)
(***************************************************************************)
EXTENDS Integers, Sequences, FiniteSets, TLC

VARIABLES
    text,        \* the document text handed to the chunker
    cfg,         \* the chunker's configuration: [max, min, overlap]
    metadata,    \* the caller's document metadata bag (a dict)
    op,          \* the operation that has run: "none" before any
    sections,    \* parse_document_structure: the sections; chunk_by_structure: article_sections
    pre,         \* chunk_by_structure: the chunks before _add_overlap
    origin,      \* for each chunk of pre: how the loop produced it (history)
    out,         \* the documents returned by the operation
    pos,         \* _find_structure_context: the chunk_start argument
    ctx,         \* _find_structure_context: the returned dict
    rag,         \* the RAGPipeline singleton: [docs, reranker]
    request,     \* the query request being served: NoRequest before any
    response,    \* what the caller of the request got back
    calls,       \* the calls RAGPipeline.query made to its collaborators, in order
    store,       \* the Chroma collection and the add_documents calls in progress
    task,        \* the process_document task: its stored state and the last status lookup
    runs         \* the chunk_by_structure runs of one chunker: [text, metadata, out] (history)

vars == <<text, cfg, metadata, op, sections, pre, origin, out, pos, ctx,
          rag, request, response, calls, store, task, runs>>

\* the variables of the query path
queryVars == <<rag, request, response, calls>>

\* the variables of the chunkers
chunkVars == <<text, cfg, metadata, op, sections, pre, origin, out, pos, ctx>>

-----------------------------------------------------------------------------
(* Python str primitives                                                   *)

NL == "\n"
SP == " "

IsWs(c) == c \in {SP, NL}
IsDigit(c) == c \in {"0", "1", "2", "3", "4", "5", "6", "7", "8", "9"}

Min(a, b) == IF a < b THEN a ELSE b
Max(a, b) == IF a > b THEN a ELSE b

\* s[a:b] with 0 <= a, b (Python slice, 0-based, end exclusive)
Slice(s, a, b) == SubSeq(s, a + 1, Min(b, Len(s)))

\* s[-n:] for n > 0
Tail_(s, n) == SubSeq(s, Max(Len(s) - n, 0) + 1, Len(s))

\* first index >= i whose character is not white space (Len(s)+1 if none)
RECURSIVE SkipWs(_, _)
SkipWs(s, i) == IF i <= Len(s) /\ IsWs(s[i]) THEN SkipWs(s, i + 1) ELSE i

\* first index >= i whose character is not a digit
RECURSIVE SkipDigits(_, _)
SkipDigits(s, i) == IF i <= Len(s) /\ IsDigit(s[i]) THEN SkipDigits(s, i + 1) ELSE i

\* last index <= i whose character is not white space (0 if none)
RECURSIVE BackWs(_, _)
BackWs(s, i) == IF i >= 1 /\ IsWs(s[i]) THEN BackWs(s, i - 1) ELSE i

\* str.strip()
Strip(s) == SubSeq(s, SkipWs(s, 1), BackWs(s, Len(s)))

\* first index >= i with s[i] = c (Len(s)+1 if none)
RECURSIVE IndexOf(_, _, _)
IndexOf(s, c, i) == IF i <= Len(s) /\ s[i] # c THEN IndexOf(s, c, i + 1) ELSE i

\* str.split('\n')
RECURSIVE SplitNL(_)
SplitNL(s) ==
    LET k == IndexOf(s, NL, 1)
    IN  IF k > Len(s) THEN <<s>>
        ELSE <<SubSeq(s, 1, k - 1)>> \o SplitNL(SubSeq(s, k + 1, Len(s)))

\* sep.join(parts)
RECURSIVE Join(_, _)
Join(parts, sep) ==
    IF parts = <<>> THEN <<>>
    ELSE IF Len(parts) = 1 THEN parts[1]
    ELSE parts[1] \o sep \o Join(Tail(parts), sep)

\* s.startswith(p)
StartsWith(s, p) == Len(s) >= Len(p) /\ SubSeq(s, 1, Len(p)) = p

\* text.find(sub, start): 0-based offset of the first occurrence at or after
\* start, -1 when there is none
RECURSIVE Find(_, _, _)
Find(s, sub, start) ==
    IF start + Len(sub) > Len(s) THEN -1
    ELSE IF SubSeq(s, start + 1, start + Len(sub)) = sub THEN start
    ELSE Find(s, sub, start + 1)

-----------------------------------------------------------------------------
(* The regular expressions.  Every matcher is applied to one stripped line: *)
(* the line holds no "\n" and does not end in white space, so "." matches   *)
(* every character of it and a greedy \s+ never has to give a blank back.   *)

\* chapter: 제\s*(\d+)\s*장\s+(.+) matched at index i; group 2 runs to the
\* end of the line
ChapterAt(s, i) ==
    LET j == SkipWs(s, i + 1)
        k == SkipDigits(s, j)
        l == SkipWs(s, k)
        m == SkipWs(s, l + 1)
        ok == /\ i <= Len(s) /\ s[i] = "J"
              /\ k > j
              /\ l <= Len(s) /\ s[l] = "A"
              /\ m > l + 1
              /\ m <= Len(s)
    IN  IF ok THEN [ok |-> TRUE, num |-> SubSeq(s, j, k - 1),
                    title |-> SubSeq(s, m, Len(s))]
        ELSE [ok |-> FALSE, num |-> <<>>, title |-> <<>>]

\* article: 제\s*(\d+)\s*조\s*(?:\((.+?)\))? matched at index i; has is FALSE
\* when the optional group took no part in the match (group(2) is None)
ArticleAt(s, i) ==
    LET j == SkipWs(s, i + 1)
        k == SkipDigits(s, j)
        l == SkipWs(s, k)
        m == SkipWs(s, l + 1)
        p == IndexOf(s, ")", m + 2)
        ok == /\ i <= Len(s) /\ s[i] = "J"
              /\ k > j
              /\ l <= Len(s) /\ s[l] = "O"
        has == m <= Len(s) /\ s[m] = "(" /\ p <= Len(s)
    IN  IF ok THEN [ok |-> TRUE, num |-> SubSeq(s, j, k - 1), has |-> has,
                    title |-> IF has THEN SubSeq(s, m + 1, p - 1) ELSE <<>>]
        ELSE [ok |-> FALSE, num |-> <<>>, has |-> FALSE, title |-> <<>>]

\* patterns['chapter'].match(line): anchored at the start; .+$ takes the rest
ChapterMatch(s) == ChapterAt(s, 1)

\* patterns['article'].match(line): anchored at the start; (.*)$ takes the rest
ArticleMatch(s) == ArticleAt(s, 1)

\* patterns['paragraph'].match(line): ^([circled digit]|\d+\))\s*(.*)$
ParagraphMatch(s) ==
    LET k == SkipDigits(s, 1)
    IN  /\ Len(s) >= 1
        /\ \/ s[1] = "P"
           \/ k > 1 /\ k <= Len(s) /\ s[k] = ")"

\* chapter_pattern.search(line): the leftmost match
RECURSIVE ChapterSearchFrom(_, _)
ChapterSearchFrom(s, i) ==
    IF i > Len(s) THEN ChapterAt(s, i)
    ELSE IF ChapterAt(s, i).ok THEN ChapterAt(s, i)
    ELSE ChapterSearchFrom(s, i + 1)

ChapterSearch(s) == ChapterSearchFrom(s, 1)

\* article_pattern.search(line): the leftmost match
RECURSIVE ArticleSearchFrom(_, _)
ArticleSearchFrom(s, i) ==
    IF i > Len(s) THEN ArticleAt(s, i)
    ELSE IF ArticleAt(s, i).ok THEN ArticleAt(s, i)
    ELSE ArticleSearchFrom(s, i + 1)

ArticleSearch(s) == ArticleSearchFrom(s, 1)

-----------------------------------------------------------------------------
(* StructureAwareChunker.parse_document_structure                           *)
(* None is written <<>> for current_chapter: a matched number is never      *)
(* empty, and the code turns None into "" where it stores it.  A chapter    *)
(* section has no article_number key; section.get('article_number', '')     *)
(* reads it as "", written <<>> here.                                       *)

\* a slip: the chapter heading is appended as a section of type article
ChapterSectionAsArticle(m, position, line_length, line_stripped) ==
    [type |-> "article", number |-> m.num, title |-> Strip(m.title),
     chapter_number |-> m.num, chapter_title |-> Strip(m.title),
     article_number |-> <<>>, article_title |-> <<>>,
     start |-> position, end |-> position + line_length,
     text |-> line_stripped]

ChapterSection(m, position, line_length, line_stripped) ==
    [type |-> "chapter", number |-> m.num, title |-> Strip(m.title),
     chapter_number |-> m.num, chapter_title |-> Strip(m.title),
     article_number |-> <<>>, article_title |-> <<>>,
     start |-> position, end |-> position + line_length,
     text |-> line_stripped]

\* a slip: the article does not inherit the current chapter
ArticleSectionNoChapter(m, st, position, text_len) ==
    [type |-> "article", number |-> m.num,
     title |-> IF m.has THEN Strip(m.title) ELSE <<>>,
     chapter_number |-> <<>>, chapter_title |-> <<>>,
     article_number |-> m.num,
     article_title |-> IF m.has THEN Strip(m.title) ELSE <<>>,
     start |-> position, end |-> text_len, text |-> <<>>]

\* sections.append({"type": "article", ...}) of the article branch
ArticleSection(m, st, position, text_len) ==
    [type |-> "article", number |-> m.num,
     title |-> IF m.has THEN Strip(m.title) ELSE <<>>,
     chapter_number |-> st.chapter, chapter_title |-> st.chapter_title,
     article_number |-> m.num,
     article_title |-> IF m.has THEN Strip(m.title) ELSE <<>>,
     start |-> position, end |-> text_len, text |-> <<>>]

\* sections[-1]["end"] = position when the last section is an article
ClosePrevious(secs, position) ==
    IF secs # <<>> /\ secs[Len(secs)].type = "article"
    THEN [secs EXCEPT ![Len(secs)].end = position]
    ELSE secs

\* one iteration of the loop over the lines; st carries sections, position,
\* current_chapter and current_chapter_title
ParseLine(st, line, text_len) ==
    LET line_stripped == Strip(line)
        line_length == Len(line) + 1
        cm == ChapterMatch(line_stripped)
        am == ArticleMatch(line_stripped)
    IN  IF line_stripped = <<>>
        THEN [st EXCEPT !.position = @ + line_length]
        ELSE IF cm.ok
        THEN [sections |-> Append(st.sections,
                  ChapterSection(cm, st.position, line_length, line_stripped)),
              position |-> st.position + line_length,
              chapter |-> cm.num, chapter_title |-> Strip(cm.title)]
        ELSE IF am.ok
        THEN [st EXCEPT
                !.sections = Append(ClosePrevious(@, st.position),
                                    ArticleSection(am, st, st.position, text_len)),
                !.position = @ + line_length]
        ELSE [st EXCEPT !.position = @ + line_length]

RECURSIVE ParseLines(_, _, _, _)
ParseLines(st, lines, i, text_len) ==
    IF i > Len(lines) THEN st
    ELSE ParseLines(ParseLine(st, lines[i], text_len), lines, i + 1, text_len)

\* a slip: the second loop keeps the end the first loop left and only fills
\* in the text
ExtractTextsKeepEnd(secs, t) ==
    [i \in 1..Len(secs) |->
        IF secs[i].type = "article"
        THEN [secs[i] EXCEPT !.text = Strip(Slice(t, secs[i].start, secs[i].end))]
        ELSE secs[i]]

\* the second loop: every article ends where the next section starts and gets
\* its stripped text
ExtractTexts(secs, t) ==
    [i \in 1..Len(secs) |->
        IF secs[i].type = "article"
        THEN LET e == IF i + 1 <= Len(secs) THEN secs[i + 1].start ELSE Len(t)
             IN  [secs[i] EXCEPT !.end = e,
                                 !.text = Strip(Slice(t, secs[i].start, e))]
        ELSE secs[i]]

parse_document_structure(t) ==
    LET st0 == [sections |-> <<>>, position |-> 0,
                chapter |-> <<>>, chapter_title |-> <<>>]
    IN  ExtractTexts(ParseLines(st0, SplitNL(t), 1, Len(t)).sections, t)

-----------------------------------------------------------------------------
(* Documents and metadata dicts.  A dict is a function from keys (strings)  *)
(* to values; a Document is [page_content, metadata].                       *)

\* dict.update: the keys of u replace or extend those of d
DictUpdate(d, u) ==
    [k \in DOMAIN d \cup DOMAIN u |-> IF k \in DOMAIN u THEN u[k] ELSE d[k]]

\* dict.get(key, default)
DictGet(d, k, default) == IF k \in DOMAIN d THEN d[k] ELSE default

Document(page_content, md) == [page_content |-> page_content, metadata |-> md]

\* a slip: the article part is left out whenever there is a chapter part
build_hierarchy_path_chapter_only(section) ==
    IF section.chapter_number # <<>>
    THEN <<"J">> \o section.chapter_number \o <<"A">>
    ELSE IF section.article_number # <<>>
    THEN <<"J">> \o section.article_number \o <<"O">>
    ELSE <<>>

\* StructureAwareChunker._build_hierarchy_path
build_hierarchy_path(section) ==
    LET chapter_part ==
            IF section.chapter_number = <<>> THEN <<>>
            ELSE IF section.chapter_title # <<>>
            THEN << <<"J">> \o section.chapter_number \o <<"A", SP>>
                    \o section.chapter_title >>
            ELSE << <<"J">> \o section.chapter_number \o <<"A">> >>
        article_part ==
            IF section.article_number = <<>> THEN <<>>
            ELSE IF section.article_title # <<>>
            THEN << <<"J">> \o section.article_number \o <<"O", SP, "(">>
                    \o section.article_title \o <<")">> >>
            ELSE << <<"J">> \o section.article_number \o <<"O">> >>
    IN  Join(chapter_part \o article_part, <<SP, ">", SP>>)

\* a slip: the chunk's metadata starts empty instead of as a copy of the bag
create_chunk_without_bag(t, section, md, chunk_index) ==
    Document(t,
        [chunk_index |-> chunk_index,
         chunk_size |-> Len(t),
         chapter_number |-> section.chapter_number,
         chapter_title |-> section.chapter_title,
         article_number |-> section.article_number,
         article_title |-> section.article_title,
         hierarchy_path |-> build_hierarchy_path(section)])

\* StructureAwareChunker._create_chunk
create_chunk(t, section, md, chunk_index) ==
    Document(t, DictUpdate(md,
        [chunk_index |-> chunk_index,
         chunk_size |-> Len(t),
         chapter_number |-> section.chapter_number,
         chapter_title |-> section.chapter_title,
         article_number |-> section.article_number,
         article_title |-> section.article_title,
         hierarchy_path |-> build_hierarchy_path(section)]))

-----------------------------------------------------------------------------
(* StructureAwareChunker._chunk_by_paragraphs; c is the chunker (self)      *)

\* "if len(para_text) >= self.min_chunk_size or not chunks": the paragraph
\* becomes a chunk, otherwise nothing is appended
EmitParagraph(chunks, para_lines, section, md, chunk_start_idx, c) ==
    LET para_text == Join(para_lines, <<NL>>)
    IN  IF Len(para_text) >= c.min \/ chunks = <<>>
        THEN Append(chunks, create_chunk(para_text, section, md,
                                         chunk_start_idx + Len(chunks)))
        ELSE chunks

\* one iteration of "for line in lines"; ps = [chunks, current_para_lines]
ParagraphLine(ps, line, section, md, chunk_start_idx, c) ==
    IF ParagraphMatch(Strip(line)) /\ ps.current_para_lines # <<>>
    THEN [chunks |-> EmitParagraph(ps.chunks, ps.current_para_lines, section,
                                   md, chunk_start_idx, c),
          current_para_lines |-> <<line>>]
    ELSE [ps EXCEPT !.current_para_lines = Append(@, line)]

RECURSIVE ParagraphLines(_, _, _, _, _, _, _)
ParagraphLines(ps, lines, i, section, md, chunk_start_idx, c) ==
    IF i > Len(lines) THEN ps
    ELSE ParagraphLines(ParagraphLine(ps, lines[i], section, md, chunk_start_idx, c),
                        lines, i + 1, section, md, chunk_start_idx, c)

chunk_by_paragraphs(article_text, section, md, chunk_start_idx, c) ==
    LET ps == ParagraphLines([chunks |-> <<>>, current_para_lines |-> <<>>],
                             SplitNL(article_text), 1, section, md,
                             chunk_start_idx, c)
        chunks == IF ps.current_para_lines # <<>>
                  THEN EmitParagraph(ps.chunks, ps.current_para_lines, section,
                                     md, chunk_start_idx, c)
                  ELSE ps.chunks
    IN  IF chunks = <<>>
        THEN <<create_chunk(article_text, section, md, chunk_start_idx)>>
        ELSE chunks

-----------------------------------------------------------------------------
(* StructureAwareChunker._add_overlap                                       *)

\* a slip in the slice: the first overlap_size characters instead of the last
OverlapTextFromHead(prev_text, c) ==
    IF Len(prev_text) > c.overlap THEN Slice(prev_text, 0, c.overlap) ELSE prev_text

\* "prev_text[-self.overlap_size:] if len(prev_text) > self.overlap_size
\* else prev_text"
OverlapText(prev_text, c) ==
    IF Len(prev_text) > c.overlap THEN Tail_(prev_text, c.overlap) ELSE prev_text

add_overlap(chunks, c) ==
    IF Len(chunks) <= 1 \/ c.overlap = 0 THEN chunks
    ELSE [i \in 1..Len(chunks) |->
            IF i > 1
            THEN Document(OverlapText(chunks[i - 1].page_content, c)
                              \o <<NL, NL>> \o chunks[i].page_content,
                          chunks[i].metadata)
            ELSE Document(chunks[i].page_content, chunks[i].metadata)]

-----------------------------------------------------------------------------
(* RecursiveCharacterTextSplitter as the two chunkers construct it:         *)
(* length_function=len, the separators of config.SEPARATORS, and the        *)
(* library defaults keep_separator=True, is_separator_regex=False,          *)
(* strip_whitespace=True.  sp is [chunk_size, chunk_overlap].               *)

SEPARATORS == << <<NL, NL>>, <<NL>>, <<".">>, <<"!">>, <<"?">>, <<SP>>, <<>> >>

\* the pieces of re.split("(sep)", t) glued back as keep_separator=True does:
\* the text before the first separator, then every separator with the text
\* that follows it; acc is the piece being collected
RECURSIVE SplitKeepFrom(_, _, _, _)
SplitKeepFrom(t, sep, i, acc) ==
    IF i > Len(t) THEN <<acc>>
    ELSE IF i + Len(sep) - 1 <= Len(t) /\ SubSeq(t, i, i + Len(sep) - 1) = sep
    THEN <<acc>> \o SplitKeepFrom(t, sep, i + Len(sep), sep)
    ELSE SplitKeepFrom(t, sep, i + 1, Append(acc, t[i]))

\* _split_text_with_regex: list(text) for the empty separator; empty pieces
\* are filtered out
split_text_with_regex(t, sep) ==
    LET raw == IF sep = <<>> THEN [i \in 1..Len(t) |-> <<t[i]>>]
               ELSE SplitKeepFrom(t, sep, 1, <<>>)
    IN  SelectSeq(raw, LAMBDA x : x # <<>>)

\* _join_docs: join, strip, None (written <<>>) for an empty result
join_docs(docs, sep) == Strip(Join(docs, sep))

\* the while loop of _merge_splits that drops leading pieces of current_doc
RECURSIVE PopOverlap(_, _, _, _, _)
PopOverlap(current_doc, total, len_d, sep, sp) ==
    IF \/ total > sp.chunk_overlap
       \/ /\ total + len_d + (IF Len(current_doc) > 0 THEN Len(sep) ELSE 0)
                > sp.chunk_size
          /\ total > 0
    THEN PopOverlap(Tail(current_doc),
                    total - (Len(current_doc[1])
                             + (IF Len(current_doc) > 1 THEN Len(sep) ELSE 0)),
                    len_d, sep, sp)
    ELSE [current_doc |-> current_doc, total |-> total]

\* one iteration of "for d in splits" of _merge_splits
MergeOne(ms, d, sep, sp) ==
    LET over == ms.total + Len(d)
                  + (IF Len(ms.current_doc) > 0 THEN Len(sep) ELSE 0)
                  > sp.chunk_size
        flush == over /\ Len(ms.current_doc) > 0
        doc == join_docs(ms.current_doc, sep)
        docs1 == IF flush /\ doc # <<>> THEN Append(ms.docs, doc) ELSE ms.docs
        popped == IF flush
                  THEN PopOverlap(ms.current_doc, ms.total, Len(d), sep, sp)
                  ELSE [current_doc |-> ms.current_doc, total |-> ms.total]
        cur == Append(popped.current_doc, d)
    IN  [docs |-> docs1, current_doc |-> cur,
         total |-> popped.total + Len(d) + (IF Len(cur) > 1 THEN Len(sep) ELSE 0)]

RECURSIVE MergeFrom(_, _, _, _, _)
MergeFrom(ms, splits, i, sep, sp) ==
    IF i > Len(splits) THEN ms
    ELSE MergeFrom(MergeOne(ms, splits[i], sep, sp), splits, i + 1, sep, sp)

merge_splits(splits, sep, sp) ==
    LET ms == MergeFrom([docs |-> <<>>, current_doc |-> <<>>, total |-> 0],
                        splits, 1, sep, sp)
        doc == join_docs(ms.current_doc, sep)
    IN  IF doc # <<>> THEN Append(ms.docs, doc) ELSE ms.docs

\* index of the first separator of seps that is "" or occurs in t; the last
\* one when there is none
RECURSIVE PickSeparator(_, _, _)
PickSeparator(t, seps, i) ==
    IF i >= Len(seps) THEN Len(seps)
    ELSE IF seps[i] = <<>> \/ Find(t, seps[i], 0) # -1 THEN i
    ELSE PickSeparator(t, seps, i + 1)

\* _split_text.  fs = [final_chunks, good_splits]; the merge separator is ""
\* because keep_separator is set
RECURSIVE split_text(_, _, _)
RECURSIVE SplitPieces(_, _, _, _, _)
SplitPieces(fs, splits, i, new_separators, sp) ==
    IF i > Len(splits)
    THEN IF fs.good_splits # <<>>
         THEN fs.final_chunks \o merge_splits(fs.good_splits, <<>>, sp)
         ELSE fs.final_chunks
    ELSE IF Len(splits[i]) < sp.chunk_size
    THEN SplitPieces([fs EXCEPT !.good_splits = Append(@, splits[i])],
                     splits, i + 1, new_separators, sp)
    ELSE LET flushed == IF fs.good_splits # <<>>
                        THEN fs.final_chunks
                                 \o merge_splits(fs.good_splits, <<>>, sp)
                        ELSE fs.final_chunks
             deeper == IF new_separators = <<>> THEN <<splits[i]>>
                       ELSE split_text(splits[i], new_separators, sp)
         IN  SplitPieces([final_chunks |-> flushed \o deeper,
                          good_splits |-> <<>>],
                         splits, i + 1, new_separators, sp)

split_text(t, separators, sp) ==
    LET k == PickSeparator(t, separators, 1)
        separator == separators[k]
        new_separators ==
            IF separator # <<>> /\ Find(t, separator, 0) # -1
            THEN SubSeq(separators, k + 1, Len(separators))
            ELSE <<>>
    IN  SplitPieces([final_chunks |-> <<>>, good_splits |-> <<>>],
                    split_text_with_regex(t, separator), 1, new_separators, sp)

\* create_documents(texts=[text], metadatas=[metadata])
create_documents(t, md, sp) ==
    LET parts == split_text(t, SEPARATORS, sp)
    IN  [i \in 1..Len(parts) |-> Document(parts[i], md)]

-----------------------------------------------------------------------------
(* StructureAwareChunker.chunk_by_structure; c = [max, min, overlap] is the *)
(* chunker (self)                                                           *)

\* a slip: the chunks of the fallback are not marked
fallback_unmarked(t, md, c) ==
    LET chunks == create_documents(t, md,
                      [chunk_size |-> c.max, chunk_overlap |-> c.overlap])
    IN  [i \in 1..Len(chunks) |->
            Document(chunks[i].page_content,
                     DictUpdate(chunks[i].metadata,
                         [chunk_index |-> i - 1,
                          chunk_size |-> Len(chunks[i].page_content),
                          chapter_number |-> <<>>,
                          chapter_title |-> <<>>,
                          article_number |-> <<>>,
                          article_title |-> <<>>,
                          hierarchy_path |-> <<>>]))]

\* _fallback_to_general_chunking
fallback_to_general_chunking(t, md, c) ==
    LET chunks == create_documents(t, md,
                      [chunk_size |-> c.max, chunk_overlap |-> c.overlap])
    IN  [i \in 1..Len(chunks) |->
            Document(chunks[i].page_content,
                     DictUpdate(chunks[i].metadata,
                         [chunk_index |-> i - 1,
                          chunk_size |-> Len(chunks[i].page_content),
                          chapter_number |-> <<>>,
                          chapter_title |-> <<>>,
                          article_number |-> <<>>,
                          article_title |-> <<>>,
                          hierarchy_path |-> <<>>,
                          chunking_strategy |-> "general"]))]

\* the inner while loop of case 3: returns the merged text and j (1-based:
\* the index of the first article that was not merged)
RECURSIVE MergeForward(_, _, _, _)
MergeForward(arts, j, merged_text, c) ==
    IF j <= Len(arts) /\ Len(merged_text) < c.min
          /\ Len(merged_text) + Len(arts[j].text) < c.max
    THEN MergeForward(arts, j + 1, merged_text \o <<NL, NL>> \o arts[j].text, c)
    ELSE [text |-> merged_text, j |-> j]

\* a slip: the structure of the last merged article instead of the first
MergedChunkOfLast(arts, i, m, md, chunk_index) ==
    create_chunk(m.text, arts[m.j - 1], md, chunk_index)

\* "chunk = self._create_chunk(merged_text, merged_sections[0], ...)": the
\* merged chunk of the articles i .. m.j-1 carries the first one's structure
MergedChunk(arts, i, m, md, chunk_index) ==
    create_chunk(m.text, arts[i], md, chunk_index)

\* the while loop over article_sections.  acc.chunks is the list `chunks`;
\* acc.origin records, for each chunk, the case that made it and the articles
\* (first..last, 1-based) it was made from: a history of the loop, not data
\* of the program
RECURSIVE ChunkArticles(_, _, _, _, _)
ChunkArticles(arts, i, acc, md, c) ==
    IF i > Len(arts) THEN acc
    ELSE
      LET section == arts[i]
          section_len == Len(section.text)
      IN  IF c.min <= section_len /\ section_len < c.max
          THEN ChunkArticles(arts, i + 1,
                   [chunks |-> Append(acc.chunks,
                        create_chunk(section.text, section, md, Len(acc.chunks))),
                    origin |-> Append(acc.origin,
                        [case |-> "single", first |-> i, last |-> i])],
                   md, c)
          ELSE IF section_len >= c.max
          THEN LET para_chunks == chunk_by_paragraphs(section.text, section, md,
                                                      Len(acc.chunks), c)
               IN  ChunkArticles(arts, i + 1,
                       [chunks |-> acc.chunks \o para_chunks,
                        origin |-> acc.origin \o
                            [k \in 1..Len(para_chunks) |->
                                [case |-> "paragraph", first |-> i, last |-> i]]],
                       md, c)
          ELSE LET m == MergeForward(arts, i + 1, section.text, c)
               IN  ChunkArticles(arts, m.j,
                       [chunks |-> Append(acc.chunks,
                            MergedChunk(arts, i, m, md, Len(acc.chunks))),
                        origin |-> Append(acc.origin,
                            [case |-> "merged", first |-> i, last |-> m.j - 1])],
                       md, c)

ArticleSections(secs) == SelectSeq(secs, LAMBDA s : s.type = "article")

\* a slip: the chunk list is kept on the chunker and not emptied between two
\* documents; pre and origin are what the run before left
chunk_by_structure_continuing(t, md, c) ==
    LET article_sections == ArticleSections(parse_document_structure(t))
        acc == ChunkArticles(article_sections, 1,
                             [chunks |-> pre, origin |-> origin], md, c)
    IN  IF article_sections = <<>>
        THEN [general |-> TRUE, article_sections |-> <<>>,
              pre |-> <<>>, origin |-> <<>>,
              out |-> fallback_to_general_chunking(t, md, c)]
        ELSE [general |-> FALSE, article_sections |-> article_sections,
              pre |-> acc.chunks, origin |-> acc.origin,
              out |-> add_overlap(acc.chunks, c)]

\* chunk_by_structure: out is what it returns; general says that the fallback
\* ran, article_sections and pre are its locals article_sections and chunks
\* (the chunks handed to _add_overlap)
chunk_by_structure(t, md, c) ==
    LET article_sections == ArticleSections(parse_document_structure(t))
        acc == ChunkArticles(article_sections, 1,
                             [chunks |-> <<>>, origin |-> <<>>], md, c)
    IN  IF article_sections = <<>>
        THEN [general |-> TRUE, article_sections |-> <<>>,
              pre |-> <<>>, origin |-> <<>>,
              out |-> fallback_to_general_chunking(t, md, c)]
        ELSE [general |-> FALSE, article_sections |-> article_sections,
              pre |-> acc.chunks, origin |-> acc.origin,
              out |-> add_overlap(acc.chunks, c)]

-----------------------------------------------------------------------------
(* DocumentChunker                                                          *)

\* the loop "for line in reversed(lines_before)" of _find_structure_context;
\* fc = [chapter, chapter_title, article, article_title], None written <<>>
\* (a matched number is never empty)
RECURSIVE ScanBackward(_, _, _)
ScanBackward(fc, lines, i) ==
    IF i < 1 THEN fc
    ELSE
      LET line == Strip(lines[i])
          am == ArticleSearch(line)
          fc1 == IF fc.article = <<>> /\ am.ok
                 THEN [fc EXCEPT !.article = am.num,
                                 !.article_title = IF am.has THEN am.title ELSE <<>>]
                 ELSE fc
          cm == ChapterSearch(line)
          fc2 == IF fc1.chapter = <<>> /\ cm.ok
                 THEN [fc1 EXCEPT !.chapter = cm.num,
                                  !.chapter_title = Strip(cm.title)]
                 ELSE fc1
      IN  IF fc2.chapter # <<>> /\ fc2.article # <<>> THEN fc2
          ELSE ScanBackward(fc2, lines, i - 1)

\* DocumentChunker._find_structure_context (chunk_end is not read)
find_structure_context(t, chunk_start) ==
    LET lines_before == SplitNL(Slice(t, 0, chunk_start))
        fc == ScanBackward([chapter |-> <<>>, chapter_title |-> <<>>,
                            article |-> <<>>, article_title |-> <<>>],
                           lines_before, Len(lines_before))
    IN  [chapter_number |-> fc.chapter,
         chapter_title |-> fc.chapter_title,
         article_number |-> fc.article,
         article_title |-> fc.article_title,
         hierarchy_path |-> build_hierarchy_path(
             [chapter_number |-> fc.chapter, chapter_title |-> fc.chapter_title,
              article_number |-> fc.article, article_title |-> fc.article_title])]

EmptyStructure ==
    [chapter_number |-> <<>>, chapter_title |-> <<>>, article_number |-> <<>>,
     article_title |-> <<>>, hierarchy_path |-> <<>>]

\* the loop of chunk_text that locates each chunk and adds its metadata
RECURSIVE LocateChunks(_, _, _, _)
LocateChunks(t, chunks, i, current_pos) ==
    IF i > Len(chunks) THEN <<>>
    ELSE
      LET chunk_text_ == chunks[i].page_content
          chunk_start == Find(t, chunk_text_, current_pos)
          chunk_end == IF chunk_start # -1 THEN chunk_start + Len(chunk_text_)
                       ELSE current_pos
          base == DictUpdate(chunks[i].metadata,
                      [chunk_id |-> i - 1, chunk_index |-> i - 1,
                       chunk_size |-> Len(chunk_text_)])
      IN  IF chunk_start # -1
          THEN <<Document(chunk_text_,
                     DictUpdate(base, find_structure_context(t, chunk_start)))>>
                 \o LocateChunks(t, chunks, i + 1, chunk_end)
          ELSE <<Document(chunk_text_, DictUpdate(base, EmptyStructure))>>
                 \o LocateChunks(t, chunks, i + 1, current_pos)

\* DocumentChunker.chunk_text; dc = [chunk_size, chunk_overlap]
chunk_text(t, md, dc) ==
    IF t = <<>> \/ Strip(t) = <<>> THEN <<>>
    ELSE LocateChunks(t, create_documents(t, md, dc), 1, 0)

-----------------------------------------------------------------------------
(* Inputs                                                                   *)

\* the longest document, in lines
MaxLines == 4

\* the lines documents are made of: a chapter heading, an article heading
\* without and with a title, a long and a short paragraph, plain text, and
\* the empty line
LineSet ==
    { <<"J", "1", "A", SP, "x">>,
      <<"J", "1", "O">>,
      <<"J", "2", "O", SP, "(", "y", ")">>,
      <<"P", "x", "x", "x", "x", "x">>,
      <<"P", "x">>,
      <<"x", "x">>,
      <<>> }

Texts == { Join(ls, <<NL>>) : ls \in UNION { [1..n -> LineSet] : n \in 1..MaxLines } }

\* StructureAwareChunker(max_chunk_size, min_chunk_size, overlap_size)
Configs ==
    { [max |-> 12, min |-> 4, overlap |-> 0],
      [max |-> 12, min |-> 4, overlap |-> 4],
      [max |-> 10, min |-> 5, overlap |-> 2] }

\* the document metadata bags callers pass
MetaBags == { [doc_name |-> <<"d">>, dept_id |-> <<"h">>] }

NoDict == [x \in {} |-> <<>>]

\* no pipeline built, no request made, nothing returned
NoPipeline == [docs |-> <<>>, reranker |-> FALSE]
NoRequest == [entry |-> "none"]
NoResponse == [status |-> "none"]
NoStore == [collection |-> <<>>]
NoTask == [state |-> "none"]

-----------------------------------------------------------------------------
(* Segmentation: one StructureAwareChunker and one document                 *)

InitSeg ==
    /\ text \in Texts
    /\ cfg \in Configs
    /\ metadata \in MetaBags
    /\ op = "none"
    /\ sections = <<>>
    /\ pre = <<>>
    /\ origin = <<>>
    /\ out = <<>>
    /\ pos = 0
    /\ ctx = NoDict
    /\ rag = NoPipeline
    /\ request = NoRequest
    /\ response = NoResponse
    /\ calls = <<>>
    /\ store = NoStore
    /\ task = NoTask
    /\ runs = {}

\* chunker.parse_document_structure(text)
ParseDocumentStructure ==
    /\ op = "none"
    /\ op' = "parse"
    /\ sections' = parse_document_structure(text)
    /\ UNCHANGED <<text, cfg, metadata, pre, origin, out, pos, ctx, rag, request, response, calls, store, task, runs>>

\* chunker.chunk_by_structure(text, metadata)
ChunkByStructure ==
    /\ op = "none"
    /\ LET r == chunk_by_structure(text, metadata, cfg)
       IN  /\ op' = IF r.general THEN "general" ELSE "structure"
           /\ sections' = r.article_sections
           /\ pre' = r.pre
           /\ origin' = r.origin
           /\ out' = r.out
    /\ UNCHANGED <<text, cfg, metadata, pos, ctx, rag, request, response, calls, store, task, runs>>

NextSeg == ParseDocumentStructure \/ ChunkByStructure

SpecSeg == InitSeg /\ [][NextSeg]_vars

-----------------------------------------------------------------------------
(* Generic chunking: one DocumentChunker and one document                   *)

\* DocumentChunker(chunk_size, chunk_overlap)
DocConfigs ==
    { [chunk_size |-> 8, chunk_overlap |-> 0],
      [chunk_size |-> 8, chunk_overlap |-> 3] }

InitDoc ==
    /\ text \in Texts
    /\ cfg \in DocConfigs
    /\ metadata \in MetaBags
    /\ op = "none"
    /\ sections = <<>>
    /\ pre = <<>>
    /\ origin = <<>>
    /\ out = <<>>
    /\ pos = 0
    /\ ctx = NoDict
    /\ rag = NoPipeline
    /\ request = NoRequest
    /\ response = NoResponse
    /\ calls = <<>>
    /\ store = NoStore
    /\ task = NoTask
    /\ runs = {}

\* chunker.chunk_text(text, metadata)
ChunkText ==
    /\ op = "none"
    /\ op' = "chunk_text"
    /\ out' = chunk_text(text, metadata, cfg)
    /\ UNCHANGED <<text, cfg, metadata, sections, pre, origin, pos, ctx, rag, request, response, calls, store, task, runs>>

\* chunker._find_structure_context(text, chunk_start, chunk_end) for a start
\* offset anywhere in the text
FindStructureContext ==
    /\ op = "none"
    /\ \E p \in 0..Len(text) :
          /\ pos' = p
          /\ ctx' = find_structure_context(text, p)
    /\ op' = "context"
    /\ UNCHANGED <<text, cfg, metadata, sections, pre, origin, out, rag, request, response, calls, store, task, runs>>

NextDoc == ChunkText

SpecDoc == InitDoc /\ [][NextDoc]_vars

\* the backward scan on its own: it reads nothing of the chunker's
\* configuration, so one chunker stands for all
InitCtx ==
    /\ InitDoc
    /\ cfg.chunk_overlap = 0

NextCtx == FindStructureContext

SpecCtx == InitCtx /\ [][NextCtx]_vars

-----------------------------------------------------------------------------
(* Properties of chunk_by_structure (SpecSeg)                               *)

Structured == op = "structure"

\* the articles of the document that went down case 2 (paragraph splitting)
Oversized(i) == Len(sections[i].text) >= cfg.max

\* the lines of the chunks k.. of pre that paragraph splitting made from
\* article i, in order
RECURSIVE ParagraphChunkLines(_, _)
ParagraphChunkLines(i, k) ==
    IF k > Len(pre) THEN <<>>
    ELSE IF origin[k].case = "paragraph" /\ origin[k].first = i
    THEN SplitNL(pre[k].page_content) \o ParagraphChunkLines(i, k + 1)
    ELSE ParagraphChunkLines(i, k + 1)

\* C1: when an article of length >= max_size is split at paragraph markers,
\* no paragraph is dropped: the paragraph chunks, taken in order, hold every
\* line of the article text (a fragment below min_size is carried into the
\* next chunk).
C1_ParagraphsKeepEveryLine ==
    Structured =>
        \A i \in 1..Len(sections) :
            Oversized(i) => ParagraphChunkLines(i, 1) = SplitNL(sections[i].text)

\* the keys _create_chunk writes
StructureKeys ==
    {"chunk_index", "chunk_size", "chapter_number", "chapter_title",
     "article_number", "article_title", "hierarchy_path"}

\* a chunk is tagged when its metadata has a key that is neither one of the
\* caller's nor one of the structural keys
Tagged(doc) == DOMAIN doc.metadata \ (DOMAIN metadata \cup StructureKeys) # {}

InBounds(doc) ==
    cfg.min <= doc.metadata["chunk_size"] /\ doc.metadata["chunk_size"] < cfg.max

\* C2: every chunk of a document with a recognised article satisfies
\* min_size <= chunk_size < max_size or carries a tag in its metadata that
\* marks it as exempt (merged or oversized).
C2_InBoundsOrTagged ==
    Structured => \A k \in 1..Len(out) : InBounds(out[k]) \/ Tagged(out[k])

\* C3 as claimed: with overlap_size > 0 the first overlap_size characters of
\* chunk i > 0 are the last overlap_size characters of chunk i-1's
\* pre-overlap text, whatever the length of chunk i-1.
C3_OverlapPrefixAnyLength ==
    (Structured /\ cfg.overlap > 0) =>
        \A k \in 2..Len(out) :
            Slice(out[k].page_content, 0, cfg.overlap)
                = Tail_(pre[k - 1].page_content, cfg.overlap)

\* C3 amended: chunk i > 0 is the last min(overlap_size, len(chunk i-1))
\* characters of chunk i-1's pre-overlap text (all of it when it is shorter
\* than overlap_size), then "\n\n", then chunk i's own pre-overlap text; the
\* prefix never comes from already-overlapped text.
C3_OverlapPrefix ==
    (Structured /\ cfg.overlap > 0) =>
        /\ Len(out) = Len(pre)
        /\ out[1].page_content = pre[1].page_content
        /\ \A k \in 2..Len(out) :
              LET n == Min(cfg.overlap, Len(pre[k - 1].page_content))
              IN  out[k].page_content
                      = Tail_(pre[k - 1].page_content, n) \o <<NL, NL>>
                            \o pre[k].page_content

\* a chain of three chunks with overlap, one predecessor shorter than
\* overlap_size and one longer
C3_Witness ==
    /\ Structured /\ cfg.overlap > 0
    /\ Len(out) >= 3
    /\ \E k \in 1..Len(pre)-1 : Len(pre[k].page_content) < cfg.overlap
    /\ \E k \in 1..Len(pre)-1 : Len(pre[k].page_content) > cfg.overlap

InRange(t) == cfg.min <= Len(t) /\ Len(t) < cfg.max

\* the chunks of pre made from article i (alone or with others)
ChunksOf(i) == { k \in 1..Len(pre) : origin[k].first <= i /\ i <= origin[k].last }

\* article i was merged into an undersized article that precedes it
Absorbed(i) ==
    \E k \in 1..Len(pre) :
        origin[k].case = "merged" /\ origin[k].first < i /\ i <= origin[k].last

\* the chapter label a hierarchy_path starts with
ChapterPrefix(number) == <<"J">> \o number \o <<"A">>

\* the text is one chapter heading followed by two articles, each of a length
\* in [min_size, max_size)
TwoArticleScenario(all) ==
    /\ Len(all) = 3
    /\ all[1].type = "chapter" /\ all[2].type = "article" /\ all[3].type = "article"
    /\ InRange(all[2].text) /\ InRange(all[3].text)

\* exactly two chunks, in document order, with the heading's chapter number,
\* the two articles' numbers and a path that begins with the chapter label
TwoArticleResult(all) ==
    /\ Len(out) = 2
    /\ \A k \in 1..2 :
          /\ out[k].metadata["chunk_index"] = k - 1
          /\ out[k].metadata["chapter_number"] = all[1].number
          /\ out[k].metadata["article_number"] = all[k + 1].number
          /\ StartsWith(out[k].metadata["hierarchy_path"], ChapterPrefix(all[1].number))
          /\ pre[k].page_content = all[k + 1].text

OneVerbatimChunk(i) ==
    /\ Cardinality(ChunksOf(i)) = 1
    /\ \A k \in ChunksOf(i) : pre[k].page_content = sections[i].text

\* C4 as claimed: the two-article scenario yields its two chunks, and every
\* article whose length is in [min_size, max_size) yields exactly one chunk
\* whose pre-overlap text is the article text verbatim.
C4_EveryInRangeArticleVerbatim ==
    Structured =>
        /\ LET all == parse_document_structure(text)
           IN  TwoArticleScenario(all) => TwoArticleResult(all)
        /\ \A i \in 1..Len(sections) :
              InRange(sections[i].text) => OneVerbatimChunk(i)

\* C4 amended: the two-article scenario yields its two chunks, and every
\* article whose length is in [min_size, max_size) and that was not merged
\* into a preceding undersized article yields exactly one chunk whose
\* pre-overlap text is the article text verbatim.
C4_InRangeArticleVerbatim ==
    Structured =>
        /\ LET all == parse_document_structure(text)
           IN  TwoArticleScenario(all) => TwoArticleResult(all)
        /\ \A i \in 1..Len(sections) :
              (InRange(sections[i].text) /\ ~Absorbed(i)) =>
                  /\ OneVerbatimChunk(i)
                  /\ \A k \in ChunksOf(i) : origin[k].case = "single"

\* the scenario of the claim, with two different article numbers
C4_Witness ==
    /\ Structured
    /\ LET all == parse_document_structure(text)
       IN  /\ TwoArticleScenario(all)
           /\ all[2].number # all[3].number
           /\ Len(out) = 2

\* the texts of the articles a..b joined as the merge joins them
RECURSIVE MergedTexts(_, _)
MergedTexts(a, b) ==
    IF a = b THEN sections[a].text
    ELSE sections[a].text \o <<NL, NL>> \o MergedTexts(a + 1, b)

FirstLine(t) == SplitNL(t)[1]

MergedGroup(k) == origin[k].case = "merged" /\ origin[k].last > origin[k].first

\* C5: an undersized article merged forward with the following article(s)
\* gives exactly one chunk: its text is the merged articles' texts in
\* document order, its chapter, article, titles and path are those of the
\* first merged article, no merged-in article has a chunk of its own, and
\* the next chunk starts at the first article that was not merged.
C5_MergedChunk ==
    Structured =>
        \A k \in 1..Len(pre) :
            MergedGroup(k) =>
                LET a == origin[k].first
                    b == origin[k].last
                    md == pre[k].metadata
                IN  /\ pre[k].page_content = MergedTexts(a, b)
                    /\ md["chapter_number"] = sections[a].chapter_number
                    /\ md["chapter_title"] = sections[a].chapter_title
                    /\ md["article_number"] = sections[a].article_number
                    /\ md["article_title"] = sections[a].article_title
                    /\ md["hierarchy_path"] = build_hierarchy_path(sections[a])
                    /\ \A i \in a..b : ChunksOf(i) = {k}
                    /\ IF k = Len(pre) THEN b = Len(sections)
                       ELSE /\ origin[k + 1].first = b + 1
                            /\ StartsWith(pre[k + 1].page_content,
                                          FirstLine(sections[b + 1].text))

\* a merged chunk of two articles with different numbers, followed by a chunk
\* of the next article
C5_Witness ==
    /\ Structured
    /\ \E k \in 1..Len(pre)-1 :
          /\ MergedGroup(k)
          /\ sections[origin[k].first].article_number
                 # sections[origin[k].last].article_number

\* no line of the text is an article heading
NoArticleLine ==
    \A i \in 1..Len(SplitNL(text)) : ~ArticleMatch(Strip(SplitNL(text)[i])).ok

Chunked == op \in {"structure", "general"}

\* C6: chunk_by_structure splits generically exactly when the text has no
\* recognised article; then every chunk has empty chapter, article and path
\* fields, chunking_strategy = "general" and a size of at most max_size; a
\* chunk built from recognised articles never carries the "general" flag.
C6_GeneralFallback ==
    Chunked =>
        /\ (op = "general") <=> NoArticleLine
        /\ op = "general" =>
              \A k \in 1..Len(out) :
                  LET md == out[k].metadata
                  IN  /\ md["chapter_number"] = <<>> /\ md["chapter_title"] = <<>>
                      /\ md["article_number"] = <<>> /\ md["article_title"] = <<>>
                      /\ md["hierarchy_path"] = <<>>
                      /\ "chunking_strategy" \in DOMAIN md
                      /\ md["chunking_strategy"] = "general"
                      /\ md["chunk_size"] = Len(out[k].page_content)
                      /\ md["chunk_size"] <= cfg.max
        /\ op = "structure" =>
              \A k \in 1..Len(out) : "chunking_strategy" \notin DOMAIN out[k].metadata

\* a text with a chapter heading and no article, split into several chunks
C6_Witness ==
    /\ op = "general"
    /\ Len(out) >= 2
    /\ \E i \in 1..Len(SplitNL(text)) : ChapterMatch(Strip(SplitNL(text)[i])).ok

\* the offsets at which the lines of t start
RECURSIVE LineStartsFrom(_, _, _)
LineStartsFrom(lines, i, offset) ==
    IF i > Len(lines) THEN <<>>
    ELSE <<offset>> \o LineStartsFrom(lines, i + 1, offset + Len(lines[i]) + 1)

LineStarts(t) == LineStartsFrom(SplitNL(t), 1, 0)

\* a heading is a line the patterns recognise, the chapter pattern first
IsHeading(line, kind) ==
    IF kind = "chapter" THEN ChapterMatch(Strip(line)).ok
    ELSE ~ChapterMatch(Strip(line)).ok /\ ArticleMatch(Strip(line)).ok

\* the index of the last line of t starting at or before offset p that is a
\* heading of the kind ("chapter" or "article"); 0 when there is none
NearestHeading(t, p, kind) ==
    LET lines == SplitNL(t)
        starts == LineStarts(t)
        hits == { i \in 1..Len(lines) : starts[i] <= p /\ IsHeading(lines[i], kind) }
    IN  IF hits = {} THEN 0 ELSE CHOOSE i \in hits : \A j \in hits : j <= i

\* the identifiers and the path the headings nearest to offset p give
NearestLabels(t, p) ==
    LET lines == SplitNL(t)
        ci == NearestHeading(t, p, "chapter")
        ai == NearestHeading(t, p, "article")
        cm == ChapterMatch(Strip(lines[ci]))
        am == ArticleMatch(Strip(lines[ai]))
        cnum == IF ci = 0 THEN <<>> ELSE cm.num
        ctitle == IF ci = 0 THEN <<>> ELSE Strip(cm.title)
        anum == IF ai = 0 THEN <<>> ELSE am.num
        atitle == IF ai = 0 \/ ~am.has THEN <<>> ELSE Strip(am.title)
        clabel == <<"J">> \o cnum \o <<"A">>
                      \o (IF ctitle = <<>> THEN <<>> ELSE <<SP>> \o ctitle)
        alabel == <<"J">> \o anum \o <<"O">>
                      \o (IF atitle = <<>> THEN <<>>
                          ELSE <<SP, "(">> \o atitle \o <<")">>)
    IN  [chapter_number |-> cnum, chapter_title |-> ctitle,
         article_number |-> anum, article_title |-> atitle,
         hierarchy_path |->
             IF cnum # <<>> /\ anum # <<>> THEN clabel \o <<SP, ">", SP>> \o alabel
             ELSE IF cnum # <<>> THEN clabel
             ELSE IF anum # <<>> THEN alabel
             ELSE <<>>]

StructureOf(md) ==
    [chapter_number |-> md["chapter_number"], chapter_title |-> md["chapter_title"],
     article_number |-> md["article_number"], article_title |-> md["article_title"],
     hierarchy_path |-> md["hierarchy_path"]]

\* the line starts inside the article a chunk begins in: the chunk's first
\* line is one of them
FirstLineOffsets(k) ==
    LET a == sections[origin[k].first]
        starts == LineStarts(text)
    IN  IF origin[k].case = "paragraph"
        THEN { starts[i] : i \in { j \in 1..Len(starts) :
                                     a.start <= starts[j] /\ starts[j] < a.end } }
        ELSE {a.start}

-----------------------------------------------------------------------------
(* Properties of DocumentChunker (SpecCtx, SpecDoc)                         *)

\* the forward parser's answer for offset p: the structure and the path of
\* the last section that starts at or before p (nothing before the first)
ForwardContext(t, p) ==
    LET secs == parse_document_structure(t)
        hits == { i \in 1..Len(secs) : secs[i].start <= p }
        s == secs[CHOOSE i \in hits : \A j \in hits : j <= i]
    IN  IF hits = {} THEN EmptyStructure
        ELSE [chapter_number |-> s.chapter_number,
              chapter_title |-> s.chapter_title,
              article_number |-> s.article_number,
              article_title |-> s.article_title,
              hierarchy_path |-> build_hierarchy_path(s)]

\* C8: for the same text and the same chunk start position the backward scan
\* (_find_structure_context) and the forward parser (parse_document_structure
\* with _build_hierarchy_path) give the same chapter_number, article_number
\* and hierarchy_path, at every start position.
C8_BackwardEqualsForward ==
    op = "context" =>
        LET f == ForwardContext(text, pos)
        IN  /\ ctx.chapter_number = f.chapter_number
            /\ ctx.article_number = f.article_number
            /\ ctx.hierarchy_path = f.hierarchy_path

\* the offsets at which a chunk's text occurs in the source; the chunk's
\* actual start offset is one of them
Occurrences(t, chunk) ==
    { p \in 0..Len(t) : Find(t, chunk, p) = p }

\* C9: chunk_text gives every chunk the chapter and article of the nearest
\* markers that precede the chunk's actual start offset, also for a chunk
\* that begins inside the overlap region of its predecessor: a chunk whose
\* text occurs in the source carries the structure found at one of the
\* offsets where it occurs.
C9_StructureAtActualStart ==
    op = "chunk_text" =>
        \A k \in 1..Len(out) :
            Occurrences(text, out[k].page_content) # {} =>
                \E p \in Occurrences(text, out[k].page_content) :
                    StructureOf(out[k].metadata)
                        = find_structure_context(text, p)

-----------------------------------------------------------------------------
(* The query path: RAGPipeline.query and its callers                        *)

TOP_K == 5
RERANK_TOP_K == 10
FINAL_TOP_K == 3

\* the question of the request; the collection is listed nearest first for it
Question == <<"q">>

\* the outcome of a call: a returned value or a raised exception
Returned(v) == [status |-> "returned", value |-> v]
Raised(e) == [status |-> "raised", error |-> e]

\* the where clause of collection.query: metadata equal to the clause's value
\* under the clause's key
Matches(md, where_filter) ==
    \A k \in DOMAIN where_filter :
        k \in DOMAIN md /\ md[k] = where_filter[k]

\* the where clause the collection accepts: one key, which is a field
\* compared by equality or "$and" over a list of two or more clauses
RECURSIVE WhereValid(_)
WhereValid(w) ==
    /\ Cardinality(DOMAIN w) = 1
    /\ "$and" \in DOMAIN w =>
          /\ Len(w["$and"]) >= 2
          /\ \A i \in 1..Len(w["$and"]) : WhereValid(w["$and"][i])

\* the documents a valid where clause lets through
RECURSIVE WhereMatches(_, _)
WhereMatches(md, w) ==
    IF "$and" \in DOMAIN w
    THEN \A i \in 1..Len(w["$and"]) : WhereMatches(md, w["$and"][i])
    ELSE Matches(md, w)

\* a slip: the where clause is applied to the n_results nearest documents
\* instead of the whole collection
collection_query_cut_first(docs, n_results, where) ==
    IF where # NoDict /\ ~WhereValid(where) THEN Raised("ValueError")
    ELSE LET ranked == [i \in 1..Len(docs) |-> [doc |-> docs[i].doc, score |-> i]]
             cut == SubSeq(ranked, 1, Min(n_results, Len(ranked)))
         IN  Returned(SelectSeq(cut, LAMBDA h :
                          where = NoDict \/ WhereMatches(h.doc.metadata, where)))

\* self.collection.query(query_embeddings, n_results=top_k, where=...): the
\* n_results nearest of the documents the where clause lets through, nearest
\* first, each with its distance; ValueError for a clause it does not accept.
\* where = NoDict is None.
collection_query(docs, n_results, where) ==
    IF where # NoDict /\ ~WhereValid(where) THEN Raised("ValueError")
    ELSE LET ranked == [i \in 1..Len(docs) |-> [doc |-> docs[i].doc, score |-> i]]
             hits == SelectSeq(ranked, LAMBDA h :
                         where = NoDict \/ WhereMatches(h.doc.metadata, where))
         IN  Returned(SubSeq(hits, 1, Min(n_results, Len(hits))))

\* VectorStore.search(query_embedding, top_k, where_filter=where_filter);
\* no caller passes a threshold
search(docs, top_k, where_filter) ==
    IF Len(docs) = 0 THEN Returned(<<>>)
    ELSE collection_query(docs, top_k, where_filter)

\* self.model.predict: the cross encoder's score of a stored document
predict(docs, doc) ==
    docs[CHOOSE i \in 1..Len(docs) : docs[i].doc = doc].relevance

\* a slip: reverse=True is left out and the sort is ascending
RECURSIVE InsertByScoreAscending(_, _)
InsertByScoreAscending(sorted, e) ==
    IF sorted = <<>> THEN <<e>>
    ELSE IF sorted[1].score <= e.score
         THEN <<sorted[1]>> \o InsertByScoreAscending(Tail(sorted), e)
         ELSE <<e>> \o sorted

\* list.sort(key=score, reverse=True): descending and stable
RECURSIVE InsertByScore(_, _)
InsertByScore(sorted, e) ==
    IF sorted = <<>> THEN <<e>>
    ELSE IF sorted[1].score >= e.score
         THEN <<sorted[1]>> \o InsertByScore(Tail(sorted), e)
         ELSE <<e>> \o sorted

RECURSIVE SortByScore(_, _)
SortByScore(items, sorted) ==
    IF items = <<>> THEN sorted
    ELSE SortByScore(Tail(items), InsertByScore(sorted, items[1]))

\* a slip: the reranked entry is rebuilt from the text that was scored and
\* loses the chunk's metadata
rerank_text_only(docs, documents, top_k) ==
    IF documents = <<>> THEN <<>>
    ELSE LET scored == [i \in 1..Len(documents) |->
                           [doc |-> Document(documents[i].doc.page_content, NoDict),
                            score |-> predict(docs, documents[i].doc)]]
             reranked == SortByScore(scored, <<>>)
         IN  IF top_k # 0 THEN SubSeq(reranked, 1, Min(top_k, Len(reranked)))
             ELSE reranked

\* DocumentReranker.rerank(query, documents, top_k); top_k = 0 is None
rerank(docs, documents, top_k) ==
    IF documents = <<>> THEN <<>>
    ELSE LET scored == [i \in 1..Len(documents) |->
                           [doc |-> documents[i].doc,
                            score |-> predict(docs, documents[i].doc)]]
             reranked == SortByScore(scored, <<>>)
         IN  IF top_k # 0 THEN SubSeq(reranked, 1, Min(top_k, Len(reranked)))
             ELSE reranked

\* the answer texts, as sequences of tokens
CompletionAnswer == <<"completion">>
NoDocumentsAnswer == <<"no_documents">>
NoAnswer == <<"no_answer">>
GenerationErrorPrefix == <<"generation_error", ":">>

\* a slip: the error text does not say why the call failed
generate_without_reason(llm) ==
    IF llm = "ok" THEN CompletionAnswer ELSE GenerationErrorPrefix

\* LLMGenerator.generate: the completion, or, when the call to the completion
\* service raises e, the error text that ends in str(e); llm is "ok" or str(e)
generate(llm) ==
    IF llm = "ok" THEN CompletionAnswer ELSE GenerationErrorPrefix \o <<llm>>

\* LLMGenerator.generate_with_sources(contexts, question)
generate_with_sources(contexts, llm) ==
    [answer |-> generate(llm),
     sources |-> [i \in 1..Len(contexts) |->
        [index |-> i,
         doc_name |-> DictGet(contexts[i].metadata, "doc_name", <<"?">>),
         chunk_id |-> DictGet(contexts[i].metadata, "chunk_id", -1),
         score |-> contexts[i].score,
         dept_id |-> DictGet(contexts[i].metadata, "dept_id", <<>>),
         project_id |-> DictGet(contexts[i].metadata, "project_id", <<>>)]]]

\* RAGPipeline.query(question, top_k, return_sources) is modelled step by step.
\* Each step yields [outcome, calls]: what query returns or raises, and the
\* calls it made to the embedder, the vector store, the reranker and the
\* generator, in the order it made them.  env holds the outcome of the two
\* external services for this call; the record of a call to the reranker or
\* the generator notes what its service did (predict_ok, completion).

\* steps 3 to 5: the contexts of the selected candidates, generation, the
\* response; made is the list of calls made so far
generate_step(question, return_sources, env, selected, made) ==
    LET contexts == [i \in 1..Len(selected) |->
                        [content |-> selected[i].doc.page_content,
                         metadata |-> selected[i].doc.metadata,
                         score |-> selected[i].score]]
        generate_call == [call |-> "generate_with_sources", contexts |-> contexts,
                          completion |-> env.llm]
        result == generate_with_sources(contexts, env.llm)
    IN  [outcome |->
            IF return_sources
            THEN Returned([answer |-> result.answer, question |-> question,
                           sources |-> result.sources])
            ELSE Returned([answer |-> result.answer, question |-> question]),
         calls |-> Append(made, generate_call)]

\* a slip: a failure of the reranker is swallowed and the candidates go on to
\* generation as the search returned them
rerank_step_fallback(r, question, return_sources, env, search_results, made) ==
    LET rerank_call == [call |-> "rerank", documents |-> search_results,
                        top_k |-> FINAL_TOP_K, predict_ok |-> env.rerank_ok]
    IN  IF ~r.reranker
        THEN generate_step(question, return_sources, env, search_results, made)
        ELSE IF ~env.rerank_ok
        THEN generate_step(question, return_sources, env, search_results,
                           Append(made, rerank_call))
        ELSE generate_step(question, return_sources, env,
                           rerank(r.docs, search_results, FINAL_TOP_K),
                           Append(made, rerank_call))

\* a slip: the contexts are built and the answer generated from the search
\* results, and the reranker runs afterwards
rerank_step_late(r, question, return_sources, env, search_results, made) ==
    LET rerank_call == [call |-> "rerank", documents |-> search_results,
                        top_k |-> FINAL_TOP_K, predict_ok |-> env.rerank_ok]
        done == generate_step(question, return_sources, env, search_results, made)
    IN  IF ~r.reranker THEN done
        ELSE IF ~env.rerank_ok
        THEN [outcome |-> Raised("RerankError"),
              calls |-> Append(done.calls, rerank_call)]
        ELSE [done EXCEPT !.calls = Append(@, rerank_call)]

\* step 2.5: "if self.reranker: search_results = self.reranker.rerank(...)";
\* an exception of the relevance model leaves query
rerank_step(r, question, return_sources, env, search_results, made) ==
    LET rerank_call == [call |-> "rerank", documents |-> search_results,
                        top_k |-> FINAL_TOP_K, predict_ok |-> env.rerank_ok]
    IN  IF ~r.reranker
        THEN generate_step(question, return_sources, env, search_results, made)
        ELSE IF ~env.rerank_ok
        THEN [outcome |-> Raised("RerankError"),
              calls |-> Append(made, rerank_call)]
        ELSE generate_step(question, return_sources, env,
                           rerank(r.docs, search_results, FINAL_TOP_K),
                           Append(made, rerank_call))

\* a slip: the candidate count of the reranker is asked for even when there
\* is no reranker
initial_top_k_of_reranker(r, top_k) == RERANK_TOP_K

\* "initial_top_k = config.RERANK_TOP_K if self.reranker else top_k"
initial_top_k(r, top_k) == IF r.reranker THEN RERANK_TOP_K ELSE top_k

\* a slip: the check for an empty search result is left out
no_results_unchecked(search_results) == FALSE

\* "if not search_results"
no_results(search_results) == search_results = <<>>

\* steps 1 and 2: the question is embedded, the vector store searched, and an
\* empty result answered at once
query_trace(r, question, top_k, return_sources, env) ==
    LET embed_call == [call |-> "embed_query", question |-> question]
        search_results == search(r.docs, initial_top_k(r, top_k), NoDict).value
        search_call == [call |-> "search", top_k |-> initial_top_k(r, top_k),
                        where_filter |-> NoDict, returned |-> search_results]
    IN  IF no_results(search_results)
        THEN [outcome |-> Returned([answer |-> NoDocumentsAnswer,
                                    sources |-> <<>>, question |-> question]),
              calls |-> <<embed_call, search_call>>]
        ELSE rerank_step(r, question, return_sources, env, search_results,
                         <<embed_call, search_call>>)

\* what RAGPipeline.query returns or raises
query(r, question, top_k, return_sources, env) ==
    query_trace(r, question, top_k, return_sources, env).outcome

\* the parameters of RAGPipeline.query
query_parameters == {"question", "top_k", "return_sources"}

\* rag.query(**kwargs): a keyword that names no parameter raises TypeError
\* before the body runs
call_query(r, kwargs, env) ==
    IF ~(DOMAIN kwargs \subseteq query_parameters) THEN Raised("TypeError")
    ELSE query(r, kwargs.question, DictGet(kwargs, "top_k", TOP_K),
               DictGet(kwargs, "return_sources", TRUE), env)

\* the calls rag.query(**kwargs) makes: none when the keywords do not bind
calls_of_query(r, kwargs, env) ==
    IF ~(DOMAIN kwargs \subseteq query_parameters) THEN <<>>
    ELSE query_trace(r, kwargs.question, DictGet(kwargs, "top_k", TOP_K),
                     DictGet(kwargs, "return_sources", TRUE), env).calls

\* utils.build_query_filters; an absent or empty argument is <<>>
build_query_filters(dept_id, project_id, category, chapter_number, article_number) ==
    LET given == [dept_id |-> dept_id, project_id |-> project_id,
                  category |-> category, chapter_number |-> chapter_number,
                  article_number |-> article_number]
    IN  [k \in { n \in DOMAIN given : given[n] # <<>> } |-> given[k]]

\* utils.format_answer_sources
format_answer_sources(sources) ==
    [i \in 1..Len(sources) |->
        [index |-> i,
         doc_name |-> DictGet(DictGet(sources[i], "metadata", NoDict),
                              "doc_name", <<"U">>),
         score |-> DictGet(sources[i], "score", 0)]]

\* the collection: at most MaxDocs stored chunks, listed nearest first
MaxDocs == 4
Depts == { <<"h">>, <<"f">> }
StoredDoc(i, dept, rel) ==
    [doc |-> Document(<<"x">>, [doc_name |-> <<"d">>, dept_id |-> dept,
                                chunk_id |-> i]),
     relevance |-> rel]
Collections ==
    UNION { { [i \in 1..n |-> StoredDoc(i, d[i], rel[i])] :
                d \in [1..n -> Depts], rel \in [1..n -> {0, 1}] } :
            n \in 0..MaxDocs }

\* the top_k values callers ask for
TopKs == {1, 3, 5}

\* the outcomes of the completion service ("ok" or the text of the exception
\* it raises) and of the reranker model
LlmOutcomes == {"ok", "timeout", "rate_limit"}
Envs == [llm : LlmOutcomes, rerank_ok : BOOLEAN]

\* the metadata filters callers send
FilterArgs == { <<>>, <<"h">>, <<"f">> }
FilterDicts == { NoDict, [dept_id |-> <<"h">>], [dept_id |-> <<"f">>],
                 [dept_id |-> <<"h">>, category |-> <<"c">>] }

InitQuery ==
    /\ text = <<>>
    /\ cfg = NoDict
    /\ metadata = NoDict
    /\ op = "none"
    /\ sections = <<>>
    /\ pre = <<>>
    /\ origin = <<>>
    /\ out = <<>>
    /\ pos = 0
    /\ ctx = NoDict
    /\ rag \in [docs : Collections, reranker : BOOLEAN]
    /\ request = NoRequest
    /\ response = NoResponse
    /\ calls = <<>>
    /\ store = NoStore
    /\ task = NoTask
    /\ runs = {}

\* pipeline.query(question, top_k=..., return_sources=...)
PipelineQuery ==
    /\ request = NoRequest
    /\ \E top_k \in TopKs, return_sources \in BOOLEAN, env \in Envs :
          LET kwargs == [question |-> Question, top_k |-> top_k,
                         return_sources |-> return_sources]
          IN  /\ request' = [entry |-> "pipeline", filters |-> NoDict,
                             top_k |-> top_k]
              /\ response' = call_query(rag, kwargs, env)
              /\ calls' = calls_of_query(rag, kwargs, env)
    /\ UNCHANGED <<rag, chunkVars, store, task, runs>>

\* pipeline.query(question, top_k=3, where_filter=where_filter,
\* return_sources=True) of test_search_with_filters
PipelineQueryWhereFilter ==
    /\ request = NoRequest
    /\ \E dept \in Depts, env \in Envs :
          LET where_filter == [dept_id |-> dept]
              kwargs == [question |-> Question, top_k |-> 3,
                         where_filter |-> where_filter, return_sources |-> TRUE]
          IN  /\ request' = [entry |-> "pipeline", filters |-> where_filter,
                             top_k |-> 3]
              /\ response' = call_query(rag, kwargs, env)
              /\ calls' = calls_of_query(rag, kwargs, env)
    /\ UNCHANGED <<rag, chunkVars, store, task, runs>>

\* POST /api/query
ApiQuery ==
    /\ request = NoRequest
    /\ \E dept_id \in FilterArgs, category \in { <<>>, <<"c">> },
          top_k \in TopKs, env \in Envs :
          LET filters == build_query_filters(dept_id, <<>>, category, <<>>, <<>>)
              kwargs == [question |-> Question, filters |-> filters,
                         top_k |-> top_k]
              result == call_query(rag, kwargs, env)
          IN  /\ request' = [entry |-> "api", filters |-> filters, top_k |-> top_k]
              /\ calls' = calls_of_query(rag, kwargs, env)
              /\ response' =
                    IF result.status = "raised"
                    THEN [status |-> "http_500", detail |-> result.error]
                    ELSE LET sources == format_answer_sources(
                                  DictGet(result.value, "sources", <<>>))
                         IN  [status |-> "http_200",
                              answer |-> DictGet(result.value, "answer", NoAnswer),
                              sources |-> sources,
                              metadata |-> [question |-> Question,
                                            filters |-> filters,
                                            source_count |-> Len(sources)]]
    /\ UNCHANGED <<rag, chunkVars, store, task, runs>>

\* the process_query task
ProcessQuery ==
    /\ request = NoRequest
    /\ \E filters \in FilterDicts, top_k \in TopKs, env \in Envs :
          LET kwargs == [question |-> Question, filters |-> filters,
                         top_k |-> top_k]
              result == call_query(rag, kwargs, env)
          IN  /\ request' = [entry |-> "task", filters |-> filters, top_k |-> top_k]
              /\ calls' = calls_of_query(rag, kwargs, env)
              /\ response' =
                    IF result.status = "raised"
                    THEN [status |-> "failed", error |-> result.error]
                    ELSE [status |-> "completed",
                          answer |-> DictGet(result.value, "answer", <<>>),
                          sources |-> DictGet(result.value, "sources", <<>>),
                          metadata |-> DictGet(result.value, "metadata", NoDict)]
    /\ UNCHANGED <<rag, chunkVars, store, task, runs>>

NextQuery ==
    PipelineQuery \/ PipelineQueryWhereFilter \/ ApiQuery \/ ProcessQuery

SpecQuery == InitQuery /\ [][NextQuery]_vars

-----------------------------------------------------------------------------
(* Properties of the query path (SpecQuery)                                 *)

\* the request carries a metadata filter
Filtered == request.entry # "none" /\ request.filters # NoDict

\* the caller got an answer
Answered ==
    \/ response.status = "returned"
    \/ response.status = "http_200"
    \/ response.status = "completed"

\* the sources handed back to the caller
ResponseSources ==
    IF response.status = "returned"
    THEN DictGet(response.value, "sources", <<>>)
    ELSE IF Answered THEN response.sources ELSE <<>>

\* C10: a query that carries a metadata filter (RAGPipeline.query with a
\* where filter, POST /api/query or the process_query task with dept_id,
\* project_id or category) completes with an answer, and every source it
\* returns satisfies the filter.
C10_FilteredQueryAnswers ==
    Filtered =>
        /\ Answered
        /\ \A i \in 1..Len(ResponseSources) :
              Matches(ResponseSources[i], request.filters)

-----------------------------------------------------------------------------
(* The vector store on its own: one collection and one search                *)

Categories == { <<"c">>, <<"e">> }

\* a stored chunk with the two metadata fields the searches filter on
FilterDoc(i, dept, category) ==
    [doc |-> Document(<<"x">>, [doc_name |-> <<"d">>, dept_id |-> dept,
                                category |-> category, chunk_id |-> i]),
     relevance |-> 0]

FilterCollections ==
    UNION { { [i \in 1..n |-> FilterDoc(i, d[i], c[i])] :
                d \in [1..n -> Depts], c \in [1..n -> Categories] } :
            n \in 0..MaxDocs }

\* the where_filter arguments: none, single fields, "$and" clauses, a value no
\* chunk has, and a flat dict of two fields
WhereFilters ==
    { NoDict,
      [dept_id |-> <<"h">>], [dept_id |-> <<"f">>], [dept_id |-> <<"z">>],
      [category |-> <<"c">>],
      "$and" :> << [dept_id |-> <<"h">>], [category |-> <<"c">>] >>,
      "$and" :> << [dept_id |-> <<"f">>], [category |-> <<"e">>] >>,
      [dept_id |-> <<"h">>, category |-> <<"c">>] }

SearchTopKs == {1, 2, 3, 5}

InitSearch ==
    /\ text = <<>>
    /\ cfg = NoDict
    /\ metadata = NoDict
    /\ op = "none"
    /\ sections = <<>>
    /\ pre = <<>>
    /\ origin = <<>>
    /\ out = <<>>
    /\ pos = 0
    /\ ctx = NoDict
    /\ rag \in [docs : FilterCollections, reranker : {FALSE}]
    /\ request = NoRequest
    /\ response = NoResponse
    /\ calls = <<>>
    /\ store = NoStore
    /\ task = NoTask
    /\ runs = {}

\* vector_store.search(query_embedding, top_k=..., where_filter=...)
VectorSearch ==
    /\ request = NoRequest
    /\ \E top_k \in SearchTopKs, where_filter \in WhereFilters :
          /\ request' = [entry |-> "search", filters |-> where_filter,
                         top_k |-> top_k]
          /\ response' = search(rag.docs, top_k, where_filter)
    /\ UNCHANGED <<rag, calls, chunkVars, store, task, runs>>

\* the values a caller supplies for the five optional fields of
\* build_query_filters; <<>> is a field left out
FieldArgs ==
    [dept_id : { <<>>, <<"h">>, <<"f">> }, project_id : { <<>>, <<"p">> },
     category : { <<>>, <<"c">> }, chapter_number : { <<>>, <<"1">> },
     article_number : { <<>>, <<"2">> }]

\* utils.build_query_filters(dept_id=..., project_id=..., category=...,
\* chapter_number=..., article_number=...)
BuildQueryFilters ==
    /\ request = NoRequest
    /\ \E a \in FieldArgs :
          /\ request' = [entry |-> "build_query_filters", args |-> a]
          /\ response' = Returned(build_query_filters(a.dept_id, a.project_id,
                              a.category, a.chapter_number, a.article_number))
    /\ UNCHANGED <<rag, calls, chunkVars, store, task, runs>>

NextSearch == VectorSearch \/ BuildQueryFilters

SpecSearch == InitSearch /\ [][NextSearch]_vars

-----------------------------------------------------------------------------
(* Properties of the vector store (SpecSearch)                              *)

\* the field = value constraints a filter of the grammar states
RECURSIVE Constraints(_)
Constraints(F) ==
    IF "$and" \in DOMAIN F
    THEN UNION { Constraints(F["$and"][i]) : i \in 1..Len(F["$and"]) }
    ELSE { <<k, F[k]>> : k \in DOMAIN F }

\* a filter of the grammar: no constraint, one equality, or an AND of them
InGrammar(F) == F = NoDict \/ WhereValid(F)

Satisfies(md, F) ==
    \A c \in Constraints(F) : c[1] \in DOMAIN md /\ md[c[1]] = c[2]

\* the positions (nearest first) of the stored chunks that satisfy F
Satisfying(F) ==
    { i \in 1..Len(rag.docs) : Satisfies(rag.docs[i].doc.metadata, F) }

\* the position in the collection of a returned candidate
PositionOf(h) == CHOOSE i \in 1..Len(rag.docs) : rag.docs[i].doc = h.doc

\* C11: search with a metadata filter F and top_k returns only chunks whose
\* metadata satisfies F, and F is applied before the top-k cut: the result
\* has min(top_k, number of chunks satisfying F) candidates, no satisfying
\* chunk left out is nearer than a returned one, and an empty filter
\* constrains nothing.
C11_FilterBeforeCut ==
    (request.entry = "search" /\ InGrammar(request.filters)) =>
        /\ response.status = "returned"
        /\ LET F == request.filters
               res == response.value
               got == { PositionOf(res[i]) : i \in 1..Len(res) }
           IN  /\ \A i \in 1..Len(res) : Satisfies(res[i].doc.metadata, F)
               /\ Len(res) = Min(request.top_k, Cardinality(Satisfying(F)))
               /\ Cardinality(got) = Len(res)
               /\ \A i \in Satisfying(F) \ got : \A j \in got : j < i
               /\ \A i \in 1..Len(res) - 1 : res[i].score <= res[i + 1].score
               /\ F = NoDict => Satisfying(F) = 1..Len(rag.docs)

\* a filtered search whose cut leaves a satisfying chunk out while a nearer
\* chunk does not satisfy the filter
C11_Witness ==
    /\ request.entry = "search"
    /\ request.filters # NoDict
    /\ InGrammar(request.filters)
    /\ response.status = "returned"
    /\ Len(response.value) = request.top_k
    /\ Cardinality(Satisfying(request.filters)) > request.top_k
    /\ \E i \in 1..Len(rag.docs) :
          /\ i \notin Satisfying(request.filters)
          /\ i < PositionOf(response.value[1])

\* the field = value pairs a caller of build_query_filters supplied
Supplied(a) == { <<k, a[k]>> : k \in { n \in DOMAIN a : a[n] # <<>> } }

\* C12: for every combination of the five optional fields build_query_filters
\* returns a filter of the index's grammar (one equality for one field, an AND
\* of equalities for several, no constraint for none) that constrains exactly
\* the supplied fields.
C12_FiltersInGrammar ==
    request.entry = "build_query_filters" =>
        /\ InGrammar(response.value)
        /\ Constraints(response.value) = Supplied(request.args)

-----------------------------------------------------------------------------
(* The reranker on its own: one candidate list and one rerank               *)

\* the scores the relevance model gives
Relevances == {0, 1, 2}

\* the text of a chunk the relevance model scores rel for the question
ContentOf(rel) == << <<"a">>, <<"b">>, <<"c">> >>[rel + 1]

\* a retrieved chunk
RerankDoc(i, rel) ==
    [doc |-> Document(ContentOf(rel), [doc_name |-> <<"d">>, chunk_id |-> i]),
     relevance |-> rel]

RerankCollections ==
    UNION { { [i \in 1..n |-> RerankDoc(i, rel[i])] : rel \in [1..n -> Relevances] } :
            n \in 0..MaxDocs }

\* the top_k arguments of rerank; 0 is None
RerankTopKs == {0, 1, 2, 3, 5}

InitRerank ==
    /\ text = <<>>
    /\ cfg = NoDict
    /\ metadata = NoDict
    /\ op = "none"
    /\ sections = <<>>
    /\ pre = <<>>
    /\ origin = <<>>
    /\ out = <<>>
    /\ pos = 0
    /\ ctx = NoDict
    /\ rag \in [docs : RerankCollections, reranker : {TRUE}]
    /\ request = NoRequest
    /\ response = NoResponse
    /\ calls = <<>>
    /\ store = NoStore
    /\ task = NoTask
    /\ runs = {}

\* reranker.rerank(query=question, documents=search_results, top_k=...): the
\* candidates are the (Document, distance) list of a search
Rerank ==
    /\ request = NoRequest
    /\ \E top_k \in RerankTopKs :
          LET documents == search(rag.docs, Len(rag.docs), NoDict).value
          IN  /\ request' = [entry |-> "rerank", documents |-> documents,
                             top_k |-> top_k]
              /\ response' = Returned(rerank(rag.docs, documents, top_k))
    /\ UNCHANGED <<rag, calls, chunkVars, store, task, runs>>

NextRerank == Rerank

SpecRerank == InitRerank /\ [][NextRerank]_vars

-----------------------------------------------------------------------------
(* Properties of the reranker (SpecRerank)                                  *)

\* the relevance score of a candidate
RelevanceOf(d) == predict(rag.docs, d.doc)

\* the candidates of the request that the response leaves out
Omitted ==
    { i \in 1..Len(request.documents) :
        \A j \in 1..Len(response.value) :
            response.value[j].doc # request.documents[i].doc }

\* C13: for every candidate list of n candidates and every top_k >= 1, rerank
\* returns exactly min(top_k, n) candidates in non-increasing order of
\* relevance score, and no candidate left out scores strictly higher than a
\* returned one.
C13_RerankTopK ==
    (request.entry = "rerank" /\ request.top_k >= 1) =>
        LET res == response.value
        IN  /\ Len(res) = Min(request.top_k, Len(request.documents))
            /\ \A i \in 1..Len(res) - 1 : res[i].score >= res[i + 1].score
            /\ \A i \in Omitted : \A j \in 1..Len(res) :
                  RelevanceOf(request.documents[i]) <= res[j].score

\* a rerank that cuts the list and moves a farther candidate ahead of a
\* nearer one
C13_Witness ==
    /\ request.entry = "rerank"
    /\ request.top_k >= 1
    /\ Len(request.documents) > request.top_k
    /\ Len(response.value) = request.top_k
    /\ response.value[1].doc # request.documents[1].doc
    /\ Omitted # {}

\* C14: the output of rerank holds only input candidates, each at most once,
\* with the same chunk (text and metadata); only the score is replaced by the
\* relevance score.  Without truncation the output is a permutation of the
\* input.
C14_RerankKeepsCandidates ==
    request.entry = "rerank" =>
        LET res == response.value
            cand == request.documents
        IN  /\ \A j \in 1..Len(res) :
                  /\ \E i \in 1..Len(cand) : cand[i].doc = res[j].doc
                  /\ res[j].score = RelevanceOf(res[j])
                  /\ DOMAIN res[j] = {"doc", "score"}
            /\ \A j, k \in 1..Len(res) : res[j].doc = res[k].doc => j = k
            /\ (request.top_k = 0 \/ request.top_k >= Len(cand)) =>
                  /\ Len(res) = Len(cand)
                  /\ Omitted = {}

\* a rerank without truncation that reorders several candidates and replaces
\* a distance by a different relevance score
C14_Witness ==
    /\ request.entry = "rerank"
    /\ request.top_k = 0
    /\ Len(request.documents) >= 3
    /\ Len(response.value) = Len(request.documents)
    /\ response.value[1].doc # request.documents[1].doc
    /\ \E i \in 1..Len(request.documents) :
          request.documents[i].doc = response.value[1].doc
          /\ request.documents[i].score # response.value[1].score

-----------------------------------------------------------------------------
(* Properties of the calls one query makes (SpecQuery)                      *)

\* query called the collaborator's method
Called(name) == \E i \in 1..Len(calls) : calls[i].call = name

\* the record of the call of that method
CallOf(name) == calls[CHOOSE i \in 1..Len(calls) : calls[i].call = name]

\* the contexts query builds from a candidate list
ContextsOf(candidates) ==
    [i \in 1..Len(candidates) |->
        [content |-> candidates[i].doc.page_content,
         metadata |-> candidates[i].doc.metadata,
         score |-> candidates[i].score]]

\* C15: when retrieval returns no candidate (an empty index included: search
\* returns an empty list without raising), RAGPipeline.query returns normally
\* with the fixed "no relevant document" answer and an empty source list, and
\* calls neither the reranker nor the generator.
C15_EmptyRetrieval ==
    (Called("search") /\ CallOf("search").returned = <<>>) =>
        /\ response.status = "returned"
        /\ response.value.answer = NoDocumentsAnswer
        /\ "sources" \in DOMAIN response.value
        /\ response.value.sources = <<>>
        /\ ~Called("rerank")
        /\ ~Called("generate_with_sources")

\* a query of a pipeline with a reranker over an empty index
C15_Witness ==
    /\ request.entry = "pipeline"
    /\ rag.docs = <<>>
    /\ rag.reranker
    /\ Called("search")
    /\ CallOf("search").returned = <<>>
    /\ response.status = "returned"

\* the answer text holds the token
Contains(answer, token) == \E i \in 1..Len(answer) : answer[i] = token

\* C16: when the external generation call raises, RAGPipeline.query does not
\* raise: it returns a normal response whose answer is an error text that
\* contains the reason of the failure.
C16_GenerationFailureAnswered ==
    (Called("generate_with_sources")
        /\ CallOf("generate_with_sources").completion # "ok") =>
        /\ response.status = "returned"
        /\ response.value.answer \notin {CompletionAnswer, NoDocumentsAnswer}
        /\ StartsWith(response.value.answer, GenerationErrorPrefix)
        /\ Contains(response.value.answer,
                    CallOf("generate_with_sources").completion)
        /\ response.value.question = Question

\* a query whose generation call failed and which still returned its sources
C16_Witness ==
    /\ request.entry = "pipeline"
    /\ Called("generate_with_sources")
    /\ CallOf("generate_with_sources").completion = "timeout"
    /\ response.status = "returned"
    /\ "sources" \in DOMAIN response.value
    /\ response.value.sources # <<>>

\* C17: when the relevance model raises while scoring and reranking is
\* enabled, query propagates the error: the caller gets no answer and the
\* generator is never called with the candidates as retrieved.
C17_RerankFailurePropagates ==
    (Called("rerank") /\ ~CallOf("rerank").predict_ok) =>
        /\ response.status = "raised"
        /\ response.error = "RerankError"
        /\ ~Called("generate_with_sources")

\* a query whose retrieval found candidates and whose reranker failed
C17_Witness ==
    /\ request.entry = "pipeline"
    /\ rag.reranker
    /\ Called("rerank")
    /\ ~CallOf("rerank").predict_ok
    /\ Len(CallOf("rerank").documents) >= 2
    /\ response.status = "raised"

\* the place of a call in the order embed, retrieve, rerank, generate
StepOf(name) ==
    CASE name = "embed_query" -> 1
      [] name = "search" -> 2
      [] name = "rerank" -> 3
      [] name = "generate_with_sources" -> 4

\* C18: within one query the external calls happen in the order embed,
\* retrieve, rerank (only when enabled), generate; the reranker is never
\* called before retrieval has returned, the evidence is never assembled nor
\* generation called before the reranker has returned, and each step happens
\* at most once.
C18_CallOrder ==
    /\ \A i, j \in 1..Len(calls) :
          i < j => StepOf(calls[i].call) < StepOf(calls[j].call)
    /\ Called("search") => Called("embed_query")
    /\ Called("rerank") =>
          /\ rag.reranker
          /\ Called("search")
          /\ CallOf("rerank").documents = CallOf("search").returned
    /\ Called("generate_with_sources") =>
          /\ Called("search")
          /\ rag.reranker =>
                /\ Called("rerank")
                /\ CallOf("generate_with_sources").contexts
                      = ContextsOf(rerank(rag.docs, CallOf("rerank").documents,
                                          CallOf("rerank").top_k))

\* a query that made all four calls and in which reranking changed the order
C18_Witness ==
    /\ request.entry = "pipeline"
    /\ Len(calls) = 4
    /\ response.status = "returned"
    /\ CallOf("generate_with_sources").contexts
          # ContextsOf(SubSeq(CallOf("search").returned, 1,
                              Len(CallOf("generate_with_sources").contexts)))

\* C19: with the reranker disabled, query asks the retriever for exactly
\* top_k candidates, and the evidence and the sources are the retriever's
\* candidates in the same order with their distance scores unchanged.
C19_NoRerankerPassThrough ==
    (request.entry = "pipeline" /\ ~rag.reranker /\ Called("search")) =>
        LET found == CallOf("search").returned
        IN  /\ CallOf("search").top_k = request.top_k
            /\ ~Called("rerank")
            /\ Called("generate_with_sources") =>
                  CallOf("generate_with_sources").contexts = ContextsOf(found)
            /\ (response.status = "returned"
                    /\ "sources" \in DOMAIN response.value
                    /\ found # <<>>) =>
                  /\ Len(response.value.sources) = Len(found)
                  /\ \A i \in 1..Len(found) :
                        /\ response.value.sources[i].chunk_id
                              = found[i].doc.metadata.chunk_id
                        /\ response.value.sources[i].score = found[i].score
                        /\ response.value.sources[i].index = i

\* a query without reranker whose top_k cuts the collection
C19_Witness ==
    /\ request.entry = "pipeline"
    /\ ~rag.reranker
    /\ request.top_k < Len(rag.docs)
    /\ Called("generate_with_sources")
    /\ response.status = "returned"
    /\ "sources" \in DOMAIN response.value
    /\ Len(response.value.sources) = request.top_k
    /\ Len(response.value.sources) >= 3

\* C20: the number of sources in a response never exceeds the top_k the
\* request asked for, for every top_k >= 1, with or without reranking.
C20_SourcesAtMostTopK ==
    (request.entry # "none" /\ Answered) =>
        Len(ResponseSources) <= request.top_k

-----------------------------------------------------------------------------
(* Ingestion: add_documents calls of several processes on one collection.   *)
(* The collection is a function from ids to stored chunks; the id "doc_n"   *)
(* is written n.  add_document_from_extract runs without any lock, in the   *)
(* CLI, the watcher and the workers alike, so the steps of two calls        *)
(* interleave freely.                                                       *)

MaxChunks == 2
Procs == {1, 2}

\* the chunks of process p's document
IngestDocs(p, n) ==
    [i \in 1..n |-> Document(<<"x">>, [doc_id |-> p, chunk_index |-> i - 1])]

\* self.collection.count()
collection_count(c) == Cardinality(DOMAIN c)

\* ids: "doc_{start_id + i}" for i, doc in enumerate(documents)
make_ids(start_id, documents) == [i \in 1..Len(documents) |-> start_id + i - 1]

\* self.collection.add(ids=ids, ..., documents=documents_text, metadatas=...).
\* An id the collection already holds is not stored again: depending on the
\* release of the library the record is skipped or the call raises, which
\* on_existing selects.
collection_add(c, ids, documents, on_existing) ==
    LET new == { ids[i] : i \in 1..Len(ids) } \ DOMAIN c
    IN  IF on_existing = "raise" /\ \E i \in 1..Len(ids) : ids[i] \in DOMAIN c
        THEN [status |-> "raised", collection |-> c]
        ELSE [status |-> "returned",
              collection |->
                 [id \in DOMAIN c \cup new |->
                     IF id \in DOMAIN c THEN c[id]
                     ELSE documents[CHOOSE i \in 1..Len(ids) : ids[i] = id]]]

\* chunks stored before the two documents arrive
StoredBefore(n) ==
    [id \in 0..(n - 1) |-> Document(<<"x">>, [doc_id |-> 0, chunk_index |-> id])]

InitIngest ==
    /\ text = <<>>
    /\ cfg = NoDict
    /\ metadata = NoDict
    /\ op = "none"
    /\ sections = <<>>
    /\ pre = <<>>
    /\ origin = <<>>
    /\ out = <<>>
    /\ pos = 0
    /\ ctx = NoDict
    /\ rag = NoPipeline
    /\ request = NoRequest
    /\ response = NoResponse
    /\ calls = <<>>
    /\ task = NoTask
    /\ runs = {}
    /\ \E n0 \in 0..1, len \in [Procs -> 0..MaxChunks] :
          store = [collection |-> StoredBefore(n0),
                   initial |-> n0,
                   proc |-> [p \in Procs |->
                               [pc |-> "called",
                                documents |-> IngestDocs(p, len[p]),
                                ids |-> <<>>]]]

\* add_documents up to the loop that builds ids: the early return for an
\* empty list, start_id = self.collection.count(), the ids
AddDocumentsPrepare(p) ==
    /\ store.proc[p].pc = "called"
    /\ LET documents == store.proc[p].documents
           start_id == collection_count(store.collection)
       IN  store' =
              IF Len(documents) = 0
              THEN [store EXCEPT !.proc[p].pc = "returned"]
              ELSE [store EXCEPT !.proc[p].pc = "prepared",
                                 !.proc[p].ids = make_ids(start_id, documents)]
    /\ UNCHANGED <<rag, request, response, calls, chunkVars, task, runs>>

\* add_documents from self.collection.add on
AddDocumentsAdd(p) ==
    /\ store.proc[p].pc = "prepared"
    /\ \E on_existing \in {"skip", "raise"} :
          LET added == collection_add(store.collection, store.proc[p].ids,
                                      store.proc[p].documents, on_existing)
          IN  store' = [store EXCEPT !.collection = added.collection,
                                     !.proc[p].pc = added.status]
    /\ UNCHANGED <<rag, request, response, calls, chunkVars, task, runs>>

NextIngest == \E p \in Procs : AddDocumentsPrepare(p) \/ AddDocumentsAdd(p)

SpecIngest == InitIngest /\ [][NextIngest]_vars

-----------------------------------------------------------------------------
(* Properties of ingestion (SpecIngest)                                     *)

\* every add_documents call is over
AllAdded == \A p \in Procs : store.proc[p].pc \in {"returned", "raised"}

\* the ids a call assigned to its chunks
IdsOf(p) == { store.proc[p].ids[i] : i \in 1..Len(store.proc[p].ids) }

\* C21: when two documents are ingested concurrently into the same index,
\* every chunk of both documents is stored under its own id: no id is
\* assigned to two chunks, no chunk is lost or overwritten, and the count
\* grows by the total number of chunks of both documents.
C21_ConcurrentAddsKeepEveryChunk ==
    /\ \A p, q \in Procs : p # q => IdsOf(p) \cap IdsOf(q) = {}
    /\ \A id \in 0..(store.initial - 1) :
          id \in DOMAIN store.collection
          /\ store.collection[id] = StoredBefore(store.initial)[id]
    /\ AllAdded =>
          /\ \A p \in Procs : store.proc[p].pc = "returned"
          /\ collection_count(store.collection)
                = store.initial + Len(store.proc[1].documents)
                                + Len(store.proc[2].documents)
          /\ \A p \in Procs : \A i \in 1..Len(store.proc[p].documents) :
                /\ store.proc[p].ids[i] \in DOMAIN store.collection
                /\ store.collection[store.proc[p].ids[i]]
                      = store.proc[p].documents[i]

-----------------------------------------------------------------------------
(* One StructureAwareChunker segmenting several documents in turn           *)

MaxRuns == 3

\* the documents: an article, plain text (segmented by the fallback), two
\* articles in either order, an article with a paragraph
RepeatTexts ==
    { Join(ls, <<NL>>) : ls \in
        { << <<"J", "1", "O">> >>,
          << <<"P", "x", "x", "x", "x", "x">> >>,
          << <<"J", "1", "O">>, <<"J", "2", "O", SP, "(", "y", ")">> >>,
          << <<"J", "2", "O", SP, "(", "y", ")">>, <<"J", "1", "O">> >>,
          << <<"J", "1", "O">>, <<"P", "x", "x", "x", "x", "x">> >>,
          << <<"J", "2", "O", SP, "(", "y", ")">>, <<"P", "x", "x", "x", "x", "x">> >> } }

RepeatBags == { [doc_name |-> <<"d">>], [doc_name |-> <<"e">>] }

InitRepeat ==
    /\ text = <<>>
    /\ cfg \in { c \in Configs : c.overlap > 0 }
    /\ metadata = NoDict
    /\ op = "none"
    /\ sections = <<>>
    /\ pre = <<>>
    /\ origin = <<>>
    /\ out = <<>>
    /\ pos = 0
    /\ ctx = NoDict
    /\ rag = NoPipeline
    /\ request = NoRequest
    /\ response = NoResponse
    /\ calls = <<>>
    /\ store = NoStore
    /\ task = NoTask
    /\ runs = {}

\* chunker.chunk_by_structure(t, md) on the chunker that made the runs so far
ChunkAnother ==
    /\ pos < MaxRuns
    /\ \E t \in RepeatTexts, md \in RepeatBags :
          LET r == chunk_by_structure(t, md, cfg)
          IN  /\ text' = t
              /\ metadata' = md
              /\ op' = IF r.general THEN "general" ELSE "structure"
              /\ sections' = r.article_sections
              /\ pre' = r.pre
              /\ origin' = r.origin
              /\ out' = r.out
              /\ runs' = runs \cup {[text |-> t, metadata |-> md, out |-> r.out]}
    /\ pos' = pos + 1
    /\ UNCHANGED <<cfg, ctx, rag, request, response, calls, store, task>>

NextRepeat == ChunkAnother

SpecRepeat == InitRepeat /\ [][NextRepeat]_vars

-----------------------------------------------------------------------------
(* Properties of repeated segmentation (SpecRepeat)                         *)

-----------------------------------------------------------------------------
(* Segmentation with metadata bags of any keys                              *)

\* the bags: empty, the usual document fields, and bags that use a key the
\* chunker writes itself
AnyBags ==
    { NoDict,
      [doc_name |-> <<"d">>, dept_id |-> <<"h">>],
      [doc_name |-> <<"d">>, chunk_index |-> 7],
      [chapter_number |-> <<"9">>, note |-> <<"n">>],
      [doc_name |-> <<"d">>, chunking_strategy |-> "manual"] }

\* documents of up to three lines
InitMeta ==
    /\ text \in { t \in Texts : Len(SplitNL(t)) <= 3 }
    /\ cfg \in { c \in Configs : c.overlap > 0 }
    /\ metadata \in AnyBags
    /\ op = "none"
    /\ sections = <<>>
    /\ pre = <<>>
    /\ origin = <<>>
    /\ out = <<>>
    /\ pos = 0
    /\ ctx = NoDict
    /\ rag = NoPipeline
    /\ request = NoRequest
    /\ response = NoResponse
    /\ calls = <<>>
    /\ store = NoStore
    /\ task = NoTask
    /\ runs = {}

NextMeta == ChunkByStructure

SpecMeta == InitMeta /\ [][NextMeta]_vars

-----------------------------------------------------------------------------
(* Properties of the metadata bag (SpecMeta)                                *)

\* the keys the chunker writes on the chunks of the fallback
FallbackKeys == StructureKeys \cup {"chunking_strategy"}

\* the pairs of the bag under the given keys are on every chunk
PairsKept(bag, keys, chunks) ==
    \A k \in 1..Len(chunks) : \A key \in keys :
        /\ key \in DOMAIN chunks[k].metadata
        /\ chunks[k].metadata[key] = bag[key]

\* C23 as stated: every key/value pair of the caller's bag appears unchanged
\* in the metadata of every chunk chunk_by_structure produces, on the
\* structure path and on the fallback path, whatever keys the bag contains,
\* and segmentation does not modify the caller's bag.
C23_EveryPairOnEveryChunk ==
    [][(op = "none" /\ op' # "none") =>
          /\ metadata' = metadata
          /\ PairsKept(metadata, DOMAIN metadata, out')]_vars

\* C23 amended: every pair of the bag whose key is not one of the keys the
\* chunker writes itself (seven on the structure path, chunking_strategy as
\* well on the fallback path) appears unchanged on every chunk, and
\* segmentation does not modify the caller's bag.
C23_PairsKeptExceptWrittenKeys ==
    [][(op = "none" /\ op' # "none") =>
          /\ metadata' = metadata
          /\ PairsKept(metadata,
                       DOMAIN metadata \ (IF op' = "general" THEN FallbackKeys
                                          ELSE StructureKeys),
                       out')]_vars

\* a document segmented by structure into several chunks under a bag that
\* holds a key of its own next to one the chunker writes
C23_Witness ==
    /\ op = "structure"
    /\ Len(out) >= 2
    /\ "note" \in DOMAIN metadata
    /\ "chapter_number" \in DOMAIN metadata
    /\ \A k \in 1..Len(out) : out[k].metadata.note = metadata.note

-----------------------------------------------------------------------------
(* The outline parser on documents with every arrangement of headings       *)

\* the lines: a chapter heading with and without a title, an article heading
\* without and with a title, plain text, and the empty line
OutlineLines ==
    { <<"J", "1", "A", SP, "x">>,
      <<"J", "2", "A">>,
      <<"J", "1", "O">>,
      <<"J", "2", "O", SP, "(", "y", ")">>,
      <<"x", "x">>,
      <<>> }

OutlineTexts ==
    { Join(ls, <<NL>>) : ls \in UNION { [1..n -> OutlineLines] : n \in 1..MaxLines } }

InitParse ==
    /\ text \in OutlineTexts
    /\ cfg = [max |-> 12, min |-> 4, overlap |-> 0]
    /\ metadata = NoDict
    /\ op = "none"
    /\ sections = <<>>
    /\ pre = <<>>
    /\ origin = <<>>
    /\ out = <<>>
    /\ pos = 0
    /\ ctx = NoDict
    /\ rag = NoPipeline
    /\ request = NoRequest
    /\ response = NoResponse
    /\ calls = <<>>
    /\ store = NoStore
    /\ task = NoTask
    /\ runs = {}

NextParse == ParseDocumentStructure

SpecParse == InitParse /\ [][NextParse]_vars

-----------------------------------------------------------------------------
(* Properties of the outline parser (SpecParse)                             *)

\* the lines of the document and the offset at which line i starts
TextLines == SplitNL(text)

RECURSIVE LineStart(_)
LineStart(i) == IF i = 1 THEN 0 ELSE LineStart(i - 1) + Len(TextLines[i - 1]) + 1

\* a section of the given kind starts on line i
SectionAt(i, kind) ==
    \E k \in 1..Len(sections) :
        sections[k].type = kind /\ sections[k].start = LineStart(i)

\* the section that starts on line i
SectionOfLine(i) ==
    sections[CHOOSE k \in 1..Len(sections) : sections[k].start = LineStart(i)]

NoRecognisedArticle ==
    \A i \in 1..Len(TextLines) :
        ChapterMatch(Strip(TextLines[i])).ok \/ ~ArticleMatch(Strip(TextLines[i])).ok

\* C25 as stated: on a text with no recognised article
\* parse_document_structure returns an empty section list and does not
\* raise, whatever other lines (chapter heading lines included) the text has.
C25_NoArticleNoSection ==
    (op = "parse" /\ NoRecognisedArticle) => sections = <<>>

\* C25 amended: on a text with no recognised article parse_document_structure
\* does not raise and returns a list without article sections: it holds one
\* chapter section for each recognised chapter heading line, in order, and is
\* empty when there is none.
C25_NoArticleOnlyChapters ==
    (op = "parse" /\ NoRecognisedArticle) =>
        /\ \A k \in 1..Len(sections) : sections[k].type = "chapter"
        /\ ArticleSections(sections) = <<>>
        /\ Len(sections)
              = Cardinality({ i \in 1..Len(TextLines) :
                                ChapterMatch(Strip(TextLines[i])).ok })
        /\ \A i \in 1..Len(TextLines) :
              ChapterMatch(Strip(TextLines[i])).ok => SectionAt(i, "chapter")

\* a document without article whose chapter heading became a section
C25_Witness ==
    /\ op = "parse"
    /\ NoRecognisedArticle
    /\ Len(sections) >= 1
    /\ Len(TextLines) >= 2

\* the line is a chapter or an article heading with a number and no title:
\* J, digits, then the mark, with optional blanks
HeadingWithoutTitle(line, mark) ==
    LET ls == Strip(line)
        j == SkipWs(ls, 2)
        k == SkipDigits(ls, j)
        l == SkipWs(ls, k)
    IN  /\ Len(ls) >= 3
        /\ ls[1] = "J"
        /\ k > j
        /\ l = Len(ls)
        /\ ls[l] = mark

\* C26: a chapter heading line or an article heading line that has a number
\* but no title is still recognised as a section of its kind, its title is
\* the empty string, and the articles that follow a chapter heading inherit
\* that chapter's number.
C26_HeadingWithoutTitle ==
    op = "parse" =>
        \A i \in 1..Len(TextLines) :
            /\ HeadingWithoutTitle(TextLines[i], "O") =>
                  /\ SectionAt(i, "article")
                  /\ SectionOfLine(i).title = <<>>
                  /\ SectionOfLine(i).article_title = <<>>
            /\ HeadingWithoutTitle(TextLines[i], "A") =>
                  /\ SectionAt(i, "chapter")
                  /\ SectionOfLine(i).title = <<>>
                  /\ \A n \in (i + 1)..Len(TextLines) :
                        (SectionAt(n, "article")
                           /\ \A m \in (i + 1)..(n - 1) : ~SectionAt(m, "chapter")) =>
                            SectionOfLine(n).chapter_number
                               = SubSeq(Strip(TextLines[i]), 2,
                                        Len(Strip(TextLines[i])) - 1)

-----------------------------------------------------------------------------
(* Construction of a StructureAwareChunker, then one document               *)

\* the constructor's arguments: the configurations above, two with
\* min_chunk_size above max_chunk_size, one with overlap_size above
\* max_chunk_size
BuildConfigs ==
    Configs \cup
    { [max |-> 4, min |-> 12, overlap |-> 0],
      [max |-> 4, min |-> 12, overlap |-> 2],
      [max |-> 4, min |-> 4, overlap |-> 6] }

\* RecursiveCharacterTextSplitter(chunk_size, chunk_overlap) raises
\* ValueError when the overlap is larger than the chunk size
text_splitter_init(chunk_size, chunk_overlap) ==
    IF chunk_overlap > chunk_size THEN Raised("ValueError") ELSE Returned(<<>>)

\* StructureAwareChunker.__init__: stores the three sizes, compiles the
\* patterns and builds the fallback splitter
chunker_init(c) == text_splitter_init(c.max, c.overlap)

InitConstruct ==
    /\ text \in { t \in Texts : Len(SplitNL(t)) <= 3 }
    /\ cfg \in BuildConfigs
    /\ metadata \in MetaBags
    /\ op = "new"
    /\ sections = <<>>
    /\ pre = <<>>
    /\ origin = <<>>
    /\ out = <<>>
    /\ pos = 0
    /\ ctx = NoDict
    /\ rag = NoPipeline
    /\ request = NoRequest
    /\ response = NoResponse
    /\ calls = <<>>
    /\ store = NoStore
    /\ task = NoTask
    /\ runs = {}

\* StructureAwareChunker(max_chunk_size, min_chunk_size, overlap_size)
Construct ==
    /\ op = "new"
    /\ op' = IF chunker_init(cfg).status = "raised" THEN "rejected" ELSE "none"
    /\ UNCHANGED <<text, cfg, metadata, sections, pre, origin, out, pos, ctx,
                   rag, request, response, calls, store, task, runs>>

NextConstruct == Construct \/ ChunkByStructure

SpecConstruct == InitConstruct /\ [][NextConstruct]_vars

-----------------------------------------------------------------------------
(* Properties of construction (SpecConstruct)                               *)

\* C27: constructing a StructureAwareChunker with min_chunk_size above
\* max_chunk_size is rejected with an error at construction, so no instance
\* exists and no document is ever segmented under such a configuration.
C27_MinAboveMaxRejected ==
    cfg.min > cfg.max => op \in {"new", "rejected"}

-----------------------------------------------------------------------------
(* The document task: process_document in a worker, get_task_status polls   *)

MaxLookups == 2

\* what extract.run_extraction can do with the uploaded file
ExtractionOutcomes == {"ok", "FileNotFoundError", "RuntimeError"}

\* the parameters of RAGPipeline.add_document_from_extract besides self
AddDocumentParams == {"extracted_dir"}

\* calling a method with a keyword it does not declare raises TypeError
call_add_document_from_extract(keywords) ==
    IF keywords \subseteq AddDocumentParams
    THEN Returned([doc_id |-> <<"d">>, chunks_added |-> 1])
    ELSE Raised("TypeError")

NoResult == [status |-> "none", error |-> "none"]

\* the result backend's record of the task: state, progress meta, result
Stored(state, progress, result) ==
    [state |-> state, progress |-> progress, result |-> result]

\* process_document.delay(...): nothing stored yet, the state reads PENDING
InitTask ==
    /\ text = <<>>
    /\ cfg = [max |-> 12, min |-> 4, overlap |-> 0]
    /\ metadata \in MetaBags
    /\ op = "none"
    /\ sections = <<>>
    /\ pre = <<>>
    /\ origin = <<>>
    /\ out = <<>>
    /\ pos = 0
    /\ ctx = NoDict
    /\ rag = NoPipeline
    /\ request = NoRequest
    /\ response = NoResponse
    /\ calls = <<>>
    /\ store = NoStore
    /\ task = [pc |-> "queued",
               stored |-> Stored("PENDING", 0, NoResult),
               raised |-> FALSE,
               error |-> "none",
               lookups |-> <<>>]
    /\ runs = {}

taskRest == <<text, cfg, metadata, op, sections, pre, origin, out, pos, ctx,
              rag, request, response, calls, store, runs>>

\* self.update_state(state='PROGRESS', meta={'progress': p, ...})
update_progress(t, p, pc) ==
    [t EXCEPT !.stored = Stored("PROGRESS", p, NoResult), !.pc = pc]

\* an exception leaves the try block for the outer except clause
raise_in_task(t, e) ==
    [t EXCEPT !.raised = TRUE, !.error = e, !.pc = "except"]

\* the worker takes the task; task_track_started stores STARTED
WorkerStart ==
    /\ task.pc = "queued"
    /\ task' = [task EXCEPT !.stored = Stored("STARTED", 0, NoResult),
                            !.pc = "started"]
    /\ UNCHANGED taskRest

\* stage 1: progress 10
BeginParsing ==
    /\ task.pc = "started"
    /\ task' = update_progress(task, 10, "parsing")
    /\ UNCHANGED taskRest

\* extract.run_extraction(file_path), then stage 2: progress 30
RunExtraction ==
    /\ task.pc = "parsing"
    /\ \E outcome \in ExtractionOutcomes :
          task' = IF outcome = "ok"
                  THEN update_progress(task, 30, "analysed")
                  ELSE raise_in_task(task, outcome)
    /\ UNCHANGED taskRest

\* stage 3: progress 40
SummaryStage ==
    /\ task.pc = "analysed"
    /\ task' = update_progress(task, 40, "summarised")
    /\ UNCHANGED taskRest

\* stage 4: progress 50
EmbeddingStage ==
    /\ task.pc = "summarised"
    /\ task' = update_progress(task, 50, "embedding")
    /\ UNCHANGED taskRest

\* rag.add_document_from_extract(extracted_dir=..., user_metadata=...); on
\* return progress 90 and the final result, on an exception re-raise
AddDocument ==
    /\ task.pc = "embedding"
    /\ LET r == call_add_document_from_extract({"extracted_dir", "user_metadata"})
       IN  task' = IF r.status = "raised"
                   THEN raise_in_task(task, r.error)
                   ELSE [task EXCEPT
                           !.stored = Stored("SUCCESS", 90,
                                             [status |-> "completed",
                                              error |-> "none"]),
                           !.pc = "done"]
    /\ UNCHANGED taskRest

\* except Exception as e: self.update_state(state='FAILURE', meta={...})
HandleException ==
    /\ task.pc = "except"
    /\ task' = [task EXCEPT
                  !.stored = Stored("FAILURE", 0,
                                    [status |-> "failed", error |-> task.error]),
                  !.pc = "handled"]
    /\ UNCHANGED taskRest

\* return {'status': 'failed', ...}: the task function returns normally and
\* the worker stores the returned value with the state SUCCESS
ReturnFailed ==
    /\ task.pc = "handled"
    /\ task' = [task EXCEPT
                  !.stored = Stored("SUCCESS", 0,
                                    [status |-> "failed", error |-> task.error]),
                  !.pc = "done"]
    /\ UNCHANGED taskRest

\* TaskStatusResponse of get_task_status for the stored record; decoding
\* a FAILURE record whose result is a dictionary instead of an exception
\* succeeds or raises, depending on the backend
task_status_response(stored, decodes) ==
    CASE stored.state = "PENDING" ->
           [status |-> "pending", progress |-> 0,
            error |-> "none", result |-> NoResult]
      [] stored.state = "PROGRESS" ->
           [status |-> "processing", progress |-> stored.progress,
            error |-> "none", result |-> NoResult]
      [] stored.state = "SUCCESS" ->
           [status |-> "completed", progress |-> 100,
            error |-> "none", result |-> stored.result]
      [] stored.state = "FAILURE" /\ ~decodes ->
           [status |-> "http_500", progress |-> 0,
            error |-> "none", result |-> NoResult]
      [] OTHER ->
           [status |-> "failed", progress |-> 0,
            error |-> IF stored.result = NoResult THEN "Unknown error"
                      ELSE stored.result.error,
            result |-> NoResult]

\* GET /api/tasks/{task_id}
GetTaskStatus ==
    /\ Len(task.lookups) < MaxLookups
    /\ \E decodes \in BOOLEAN :
          task' = [task EXCEPT !.lookups =
                     Append(@, [at |-> task.pc,
                                response |-> task_status_response(task.stored,
                                                                  decodes)])]
    /\ UNCHANGED taskRest

NextTask ==
    \/ WorkerStart
    \/ BeginParsing
    \/ RunExtraction
    \/ SummaryStage
    \/ EmbeddingStage
    \/ AddDocument
    \/ HandleException
    \/ ReturnFailed
    \/ GetTaskStatus

SpecTask == InitTask /\ [][NextTask]_vars

-----------------------------------------------------------------------------
(* Properties of the document task (SpecTask)                               *)

\* C28: if processing raises at any stage of process_document the task ends
\* failed: every get_task_status after the task has ended reports status
\* "failed" with the error, never "completed" with progress 100.
C28_RaisedTaskReportsFailed ==
    \A i \in 1..Len(task.lookups) :
        (task.raised /\ task.lookups[i].at = "done") =>
            /\ task.lookups[i].response.status = "failed"
            /\ task.lookups[i].response.error = task.error
            /\ ~(task.lookups[i].response.status = "completed"
                   /\ task.lookups[i].response.progress = 100)

-----------------------------------------------------------------------------
(* Sizes and coverage of the structure path (SpecSeg)                       *)

\* C29: a chunk produced by forward merging never reaches max_size: its
\* chunk_size, the "\n\n" separators between the merged articles included,
\* is strictly less than max_size.
C29_MergedBelowMax ==
    Structured =>
        \A k \in 1..Len(pre) :
            MergedGroup(k) =>
                /\ pre[k].metadata["chunk_size"] = Len(pre[k].page_content)
                /\ pre[k].metadata["chunk_size"] < cfg.max

\* the line, without surrounding blanks, is a line of chunk k's pre-overlap
\* text
LineInChunk(line, k) ==
    LET ls == SplitNL(pre[k].page_content)
    IN  \E n \in 1..Len(ls) : Strip(ls[n]) = Strip(line)

\* C30: for a document with at least one recognised article no content is
\* lost: every non-blank line of the document (text before the first
\* article, chapter heading lines, every line of every article) is in the
\* pre-overlap text of at least one chunk.
C30_EveryLineInSomeChunk ==
    Structured =>
        \A i \in 1..Len(TextLines) :
            Strip(TextLines[i]) # <<>> =>
                \E k \in 1..Len(pre) : LineInChunk(TextLines[i], k)

====
